---- MODULE Spec2Model ----
(***************************************************************************)
(* Strategy orchestration core of crowe-codex: the strategies' execute     *)
(* coroutines, the engine's normalisation of a strategy result, the        *)
(* confidence and fitness scores and the adaptive router.                   *)
(*                                                                          *)
(* Each component is one variable holding a record whose fields carry the   *)
(* names of the locals and attributes of the code it models.  A component   *)
(* that a specification does not exercise stays Idle in it.                 *)
(***************************************************************************)
EXTENDS Integers, Sequences, FiniteSets, TLC

VARIABLES
    adv,    \* one Adversarial.execute coroutine
    evo,    \* one Evolutionary.execute coroutine
    ver,    \* one VerificationLoop.execute coroutine
    mesh,   \* one CognitiveMesh.execute coroutine
    eng,    \* one DualEngine.run normalisation
    conf,   \* one ConfidenceReport object and the last read of its score
    fit,    \* FitnessScore construction, parsing and combination
    rtr,    \* an AdaptiveRouter with its RoutingHistory
    pipe,   \* one Pipeline.execute coroutine
    cons,   \* one Consensus.execute coroutine
    hist,   \* the routing-history file and the RoutingHistory objects on it
    conc,   \* two DualEngine.run coroutines on one engine
    rank,   \* one FitnessRunner.rank_candidates call
    att,    \* one SecurityAttestation and its overall_score
    ser,    \* one to_dict / from_dict round trip
    store,  \* one persisted document and the store that loads it
    twice,  \* one strategy instance executed twice in succession
    cross,  \* one crossover reply made into the next generation
    best,   \* one RoutingHistory asked for its best strategy
    route,  \* AdaptiveRouter.execute delegating to a registered strategy
    sync    \* CloudRoutingSync on one path: its profile and the merges made

vars == <<adv, evo, ver, mesh, eng, conf, fit, rtr, pipe, cons, hist,
          conc, rank, att, ser, store, twice, cross, best, route, sync>>

Idle == "idle"

(***************************************************************************)
(* Shared vocabulary                                                        *)
(***************************************************************************)

\* Role names an agent set may hold.
Roles == {"claude", "codex", "ollama", "dispatch"}

\* The elements of a sequence.
Range(s) == {s[k] : k \in DOMAIN s}

\* Every agent set a caller can pass: a dict from role name to agent, which
\* keeps its insertion order.  It is modelled by the sequence of its keys.
AgentDicts ==
    {d \in UNION {[1..n -> Roles] : n \in 0..Cardinality(Roles)} :
        \A i, j \in DOMAIN d : i # j => d[i] # d[j]}

\* Replies an agent may return to a call (opaque text).
Texts == {"a", "b"}

\* Number of calls in the log `calls` that went to `role`.
CallsTo(calls, role) == Cardinality({k \in DOMAIN calls : calls[k] = role})

(***************************************************************************)
(* Adversarial.execute                                                      *)
(***************************************************************************)

MaxRounds == 3

\* Adversarial(rounds=N): any non-negative N up to the bound.
AdvRounds == 0..MaxRounds

AdvRequired == {"claude", "codex", "ollama", "dispatch"}

\* The fix pass with every round, the last one included.
FixGateEveryRound(round_num, rounds) == round_num < rounds

\* `if round_num < self.rounds - 1`
FixGate(round_num, rounds) == round_num < rounds - 1

\* What the prompt of the call at `a.pc` embeds: the code, the attack
\* findings and the fuzz findings.  The build prompt embeds the task only.
AdvPromptLatestOnly(a) ==
    CASE a.pc = "build" -> [code |-> "", attacks |-> <<>>, fuzzes |-> <<>>]
      [] a.pc \in {"attack", "fuzz"} ->
            [code |-> a.build_output, attacks |-> <<>>, fuzzes |-> <<>>]
      [] a.pc = "fix" ->
            [code |-> a.build_output, attacks |-> <<a.attack_output>>,
             fuzzes |-> <<a.fuzz_output>>]
      [] a.pc = "dispatch" ->
            [code |-> a.build_output, attacks |-> <<a.attack_output>>,
             fuzzes |-> <<a.fuzz_output>>]

\* build_prompt, attack_prompt, fuzz_prompt, fix_prompt and dispatch_prompt;
\* chr(10).join(all_attacks) is kept as the list it joins.
AdvPrompt(a) ==
    CASE a.pc = "build" -> [code |-> "", attacks |-> <<>>, fuzzes |-> <<>>]
      [] a.pc \in {"attack", "fuzz"} ->
            [code |-> a.build_output, attacks |-> <<>>, fuzzes |-> <<>>]
      [] a.pc = "fix" ->
            [code |-> a.build_output, attacks |-> <<a.attack_output>>,
             fuzzes |-> <<a.fuzz_output>>]
      [] a.pc = "dispatch" ->
            [code |-> a.build_output, attacks |-> a.all_attacks,
             fuzzes |-> a.all_fuzzes]

\* The entry a call leaves in the log `asked`: its call site, what its prompt
\* embedded and what the agent returned ("" for a call that raised).
AdvAsked(a, reply) ==
    [site |-> a.pc, prompt |-> AdvPrompt(a), reply |-> reply]

\* The components an Adversarial run leaves alone.
advRest ==
    <<evo, ver, mesh, eng, conf, fit, rtr, pipe, cons, hist,
      conc, rank, att, ser, store, twice, cross, best, route, sync>>

\* Adversarial(rounds=n).execute entered with the agents `ag`.
AdvEntered(n, ag) ==
    [pc |-> "lookup", rounds |-> n, agents |-> ag,
     round_num |-> 0,
     build_output |-> "", attack_output |-> "", fuzz_output |-> "",
     all_attacks |-> <<>>, all_fuzzes |-> <<>>,
     calls |-> <<>>, asked |-> <<>>, ret |-> Idle]

AdvInit ==
    \E n \in AdvRounds, ag \in AgentDicts :
        adv = AdvEntered(n, ag)

\* agents["claude"], agents["codex"], agents["ollama"], agents["dispatch"]:
\* a missing key raises KeyError before any call.
AdvLookup ==
    /\ UNCHANGED advRest
    /\ adv.pc = "lookup"
    /\ adv' = [adv EXCEPT !.pc = IF AdvRequired \subseteq Range(adv.agents)
                                 THEN "build" ELSE "raised"]

\* The head of `for round_num in range(self.rounds)` for the index `r`.
AdvLoop(a, r) ==
    IF r < a.rounds
    THEN [a EXCEPT !.round_num = r, !.pc = "attack"]
    ELSE [a EXCEPT !.pc = "dispatch"]

\* build_output = await claude.execute(build_prompt), then the loop is entered.
AdvBuild ==
    /\ UNCHANGED advRest
    /\ adv.pc = "build"
    /\ \E out \in Texts :
        adv' = AdvLoop([adv EXCEPT !.build_output = out,
                                   !.calls = Append(@, "claude"),
                                   !.asked = Append(@, AdvAsked(adv, out))],
                       0)

\* attack_output = await codex.execute(attack_prompt); all_attacks.append(...)
AdvAttack ==
    /\ UNCHANGED advRest
    /\ adv.pc = "attack"
    /\ \E out \in Texts :
        adv' = [adv EXCEPT !.attack_output = out,
                           !.all_attacks = Append(@, out),
                           !.calls = Append(@, "codex"),
                           !.asked = Append(@, AdvAsked(adv, out)),
                           !.pc = "fuzz"]

\* fuzz_output = await ollama.execute(fuzz_prompt); all_fuzzes.append(...);
\* then the fix gate decides between the fix pass and the next round.
AdvFuzz ==
    /\ UNCHANGED advRest
    /\ adv.pc = "fuzz"
    /\ \E out \in Texts :
        LET a == [adv EXCEPT !.fuzz_output = out,
                             !.all_fuzzes = Append(@, out),
                             !.calls = Append(@, "ollama"),
                             !.asked = Append(@, AdvAsked(adv, out))]
        IN  adv' = IF FixGate(a.round_num, a.rounds)
                   THEN [a EXCEPT !.pc = "fix"]
                   ELSE AdvLoop(a, a.round_num + 1)

\* build_output = await claude.execute(fix_prompt)
AdvFix ==
    /\ UNCHANGED advRest
    /\ adv.pc = "fix"
    /\ \E out \in Texts :
        adv' = AdvLoop([adv EXCEPT !.build_output = out,
                                   !.calls = Append(@, "claude"),
                                   !.asked = Append(@, AdvAsked(adv, out))],
                       adv.round_num + 1)

\* dispatch_output = await dispatch.execute(dispatch_prompt); return {...}
AdvDispatch ==
    /\ UNCHANGED advRest
    /\ adv.pc = "dispatch"
    /\ \E out \in Texts :
        adv' = [adv EXCEPT
                  !.calls = Append(@, "dispatch"),
                  !.asked = Append(@, AdvAsked(adv, out)),
                  !.pc = "done",
                  !.ret = [build_output |-> adv.build_output,
                           attack_output |-> adv.attack_output,
                           fuzz_output |-> adv.fuzz_output,
                           dispatch_output |-> out,
                           rounds |-> adv.rounds,
                           total_attacks |-> Len(adv.all_attacks),
                           strategy |-> "adversarial"]]

\* The role awaited at each call site of Adversarial.execute.
AdvCallee(pc) ==
    CASE pc = "build" -> "claude"
      [] pc = "attack" -> "codex"
      [] pc = "fuzz" -> "ollama"
      [] pc = "fix" -> "claude"
      [] pc = "dispatch" -> "dispatch"

\* An awaited agent call raises: execute has no try/except, the error leaves it.
AdvAgentRaises ==
    /\ UNCHANGED advRest
    /\ adv.pc \in {"build", "attack", "fuzz", "fix", "dispatch"}
    /\ adv' = [adv EXCEPT !.calls = Append(@, AdvCallee(adv.pc)),
                          !.asked = Append(@, AdvAsked(adv, "")),
                          !.pc = "raised"]

NextAdv ==
    \/ AdvLookup
    \/ AdvBuild
    \/ AdvAttack
    \/ AdvFuzz
    \/ AdvFix
    \/ AdvDispatch
    \/ AdvAgentRaises

InitAdv ==
    /\ sync = Idle
    /\ route = Idle
    /\ best = Idle
    /\ cross = Idle
    /\ AdvInit
    /\ evo = Idle /\ ver = Idle /\ mesh = Idle
    /\ eng = Idle /\ conf = Idle /\ fit = Idle /\ rtr = Idle
    /\ pipe = Idle /\ cons = Idle
    /\ hist = Idle
    /\ conc = Idle
    /\ rank = Idle
    /\ att = Idle
    /\ ser = Idle
    /\ store = Idle
    /\ twice = Idle

SpecAdv == InitAdv /\ [][NextAdv]_vars

\* C1 (as stated): a completed execute of Adversarial(rounds=N) has called the
\* builder role 'claude' exactly N times and returns total_attacks = N and
\* rounds = N, for every N >= 0.
C1_BuilderCallsEqualRounds ==
    adv.pc = "done" =>
        /\ CallsTo(adv.calls, "claude") = adv.rounds
        /\ adv.ret.total_attacks = adv.rounds
        /\ adv.ret.rounds = adv.rounds

\* C1 (amended): a completed execute of Adversarial(rounds=N) returns
\* total_attacks = N and rounds = N for every N >= 0; the builder role 'claude'
\* has been called exactly N times when N >= 1 and exactly once when N = 0
\* (the initial build is unconditional).
C1_BuilderCallsAmended ==
    adv.pc = "done" =>
        /\ CallsTo(adv.calls, "claude") = IF adv.rounds >= 1 THEN adv.rounds ELSE 1
        /\ adv.ret.total_attacks = adv.rounds
        /\ adv.ret.rounds = adv.rounds

\* A run with three rounds (two fix passes) has returned.
C1_Witness ==
    /\ adv.pc = "done"
    /\ adv.rounds = 3
    /\ CallsTo(adv.calls, "claude") = 3
    /\ adv.ret.total_attacks = 3

\* The site of every call made so far, in order.
AskedSites == [i \in DOMAIN adv.asked |-> adv.asked[i].site]

\* What the builder returned last before call i: the current code.
CurrentCode(i) ==
    adv.asked[CHOOSE j \in 1..(i - 1) :
                 /\ adv.asked[j].site \in {"build", "fix"}
                 /\ \A k \in (j + 1)..(i - 1) :
                       adv.asked[k].site \notin {"build", "fix"}].reply

\* The round call i belongs to: the attacks made up to it, less one.
RoundOfCall(i) ==
    Cardinality({j \in 1..i : adv.asked[j].site = "attack"}) - 1

\* The replies of the calls made at `site`, in order.
RepliesAt(site) ==
    LET at == SelectSeq(adv.asked, LAMBDA c : c.site = site)
    IN  [i \in DOMAIN at |-> at[i].reply]

\* C30: in a run whose agents all return, the first call is the build; every
\* round attacks and then fuzzes the current code (what the builder returned
\* last); a fix pass follows the fuzz exactly when round_num < rounds - 1 and
\* is given that round's attack and fuzz findings and the code they were
\* found in; dispatch is called once, last, with the final code and the
\* attack and fuzz outputs of all rounds in round order; with rounds = 1 the
\* calls are exactly build, attack, fuzz, dispatch.
C30_RoundOrder ==
    adv.pc # "raised" =>
        /\ \A i \in DOMAIN adv.asked :
            LET c == adv.asked[i]
                last == i = Len(adv.asked)
            IN  /\ c.site = "build" <=> i = 1
                /\ c.site = "attack" =>
                      /\ c.prompt.code = CurrentCode(i)
                      /\ ~last => adv.asked[i + 1].site = "fuzz"
                /\ c.site = "fuzz" =>
                      /\ adv.asked[i - 1].site = "attack"
                      /\ c.prompt.code = CurrentCode(i)
                      /\ ~last =>
                            adv.asked[i + 1].site =
                               IF RoundOfCall(i) < adv.rounds - 1
                               THEN "fix" ELSE "dispatch"
                /\ c.site = "fix" =>
                      /\ adv.asked[i - 1].site = "fuzz"
                      /\ RoundOfCall(i) < adv.rounds - 1
                      /\ c.prompt.code = CurrentCode(i)
                      /\ c.prompt.attacks = <<adv.asked[i - 2].reply>>
                      /\ c.prompt.fuzzes = <<adv.asked[i - 1].reply>>
                      /\ ~last => adv.asked[i + 1].site = "attack"
                /\ c.site = "dispatch" =>
                      /\ last
                      /\ c.prompt.code = CurrentCode(i)
                      /\ c.prompt.attacks = RepliesAt("attack")
                      /\ c.prompt.fuzzes = RepliesAt("fuzz")
                      /\ Len(RepliesAt("attack")) = adv.rounds
                      /\ Len(RepliesAt("fuzz")) = adv.rounds
        /\ adv.pc = "done" =>
              /\ Len(RepliesAt("dispatch")) = 1
              /\ adv.rounds = 1 =>
                    AskedSites = <<"build", "attack", "fuzz", "dispatch">>

\* A run of three rounds has returned: the code changed with the first fix,
\* the attackers' findings differed between rounds, and dispatch was given
\* all three rounds of findings.
C30_Witness ==
    /\ adv.pc = "done"
    /\ adv.rounds = 3
    /\ AskedSites = <<"build", "attack", "fuzz", "fix", "attack", "fuzz",
                      "fix", "attack", "fuzz", "dispatch">>
    /\ adv.asked[1].reply # adv.asked[4].reply
    /\ adv.asked[2].reply # adv.asked[5].reply
    /\ adv.asked[10].prompt.attacks
         = <<adv.asked[2].reply, adv.asked[5].reply, adv.asked[8].reply>>

(***************************************************************************)
(* Evolutionary.execute                                                     *)
(***************************************************************************)

MaxPopulation == 2
MaxGenerations == 3
MaxOutputLen == 3

\* Text is a sequence of tokens: a code character, a whitespace character, and
\* the separator '---CANDIDATE---' that the crossover prompt asks for.
SEP == "---CANDIDATE---"
WS == " "
Tokens == {"x", WS, SEP}

\* What the crossover call may return: any text up to the bound.
CrossoverOutputs == UNION {[1..n -> Tokens] : n \in 0..MaxOutputLen}

\* What a generation-0 call may return.
GenTexts == {<<>>, <<"x">>}

Min(a, b) == IF a < b THEN a ELSE b

\* str.strip(): leading and trailing whitespace removed.
RECURSIVE LStrip(_)
LStrip(s) == IF s # <<>> /\ Head(s) = WS THEN LStrip(Tail(s)) ELSE s

RECURSIVE RStrip(_)
RStrip(s) ==
    IF s # <<>> /\ s[Len(s)] = WS THEN RStrip(SubSeq(s, 1, Len(s) - 1)) ELSE s

Strip(s) == RStrip(LStrip(s))

\* str.split('---CANDIDATE---'): the pieces between separators, empty pieces
\* included; a text without separator is one piece.
RECURSIVE Split(_)
Split(s) ==
    IF \E k \in DOMAIN s : s[k] = SEP
    THEN LET k == CHOOSE k \in DOMAIN s :
                      s[k] = SEP /\ \A j \in 1..(k - 1) : s[j] # SEP
         IN  <<SubSeq(s, 1, k - 1)>> \o Split(SubSeq(s, k + 1, Len(s)))
    ELSE <<s>>

\* [c.strip() for c in crossover_output.split(SEP) if c.strip()]
RECURSIVE ParseCandidates(_)
ParseCandidates(pieces) ==
    IF pieces = <<>> THEN <<>>
    ELSE LET c == Strip(Head(pieces))
         IN  (IF c # <<>> THEN <<c>> ELSE <<>>) \o ParseCandidates(Tail(pieces))

\* The padding done with copies of the first candidate.
RECURSIVE PadWithFirst(_, _)
PadWithFirst(candidates, population) ==
    IF Len(candidates) < population
    THEN PadWithFirst(Append(candidates,
                             IF candidates # <<>> THEN candidates[1]
                             ELSE <<>>),
                      population)
    ELSE candidates

\* `while len(candidates) < self.population:
\*      candidates.append(candidates[-1] if candidates else "")`
RECURSIVE Pad(_, _)
Pad(candidates, population) ==
    IF Len(candidates) < population
    THEN Pad(Append(candidates,
                    IF candidates # <<>> THEN candidates[Len(candidates)]
                    ELSE <<>>),
             population)
    ELSE candidates

\* The truncation left out: every returned candidate is kept.
TruncateNothing(candidates, population) == candidates

\* `candidates[: self.population]` for a population >= 0
Truncate(candidates, population) ==
    SubSeq(candidates, 1, Min(population, Len(candidates)))

\* The new generation made of one crossover reply.
NewGeneration(crossover_output, population) ==
    Truncate(Pad(ParseCandidates(Split(crossover_output)), population),
             population)

\* `workers = [v for k, v in agents.items() if k != "dispatch"]`
Workers(agents) == SelectSeq(agents, LAMBDA k : k # "dispatch")

EvoRequired == {"claude", "codex", "dispatch"}

Pending == <<"pending">>

\* The components an Evolutionary run leaves alone.
evoRest ==
    <<adv, ver, mesh, eng, conf, fit, rtr, pipe, cons, hist,
      conc, rank, att, ser, store, twice, cross, best, route, sync>>

\* The trait every variant prompt asks for.
EmphasisConstant(i) == "performance"

\* `'performance' if i % 3 == 0 else 'readability' if i % 3 == 1 else
\*  'robustness'`
Emphasis(i) ==
    IF i % 3 = 0 THEN "performance"
    ELSE IF i % 3 = 1 THEN "readability" ELSE "robustness"

\* all_generations is kept as the length of each recorded generation: the code
\* reads nothing else of it (len(all_generations), sum(len(g) ...)).
EvoEntered(p, g, ag) ==
    [pc |-> "lookup", population |-> p, generations |-> g,
     agents |-> ag, gen |-> 0,
     gen_tasks |-> <<>>, variants |-> <<>>, results |-> <<>>,
     candidates |-> <<>>, all_generations |-> <<>>,
     fitness_output |-> "", returned |-> 0,
     calls |-> <<>>, ret |-> Idle]

EvoInit ==
    \E p \in 0..MaxPopulation, g \in 0..MaxGenerations, ag \in AgentDicts :
        evo = EvoEntered(p, g, ag)

\* agents["claude"], agents["codex"], agents["dispatch"]
EvoLookup ==
    /\ UNCHANGED evoRest
    /\ evo.pc = "lookup"
    /\ evo' = [evo EXCEPT !.pc = IF EvoRequired \subseteq Range(evo.agents)
                                 THEN "gen0" ELSE "raised"]

\* A loop head that admits the index equal to `generations`.
EvoLoopOneMore(e, g) ==
    IF g <= e.generations
    THEN [e EXCEPT !.gen = g, !.pc = "fitness"]
    ELSE [e EXCEPT !.pc = "dispatch"]

\* The head of `for gen in range(1, self.generations)` for the index `g`.
EvoLoop(e, g) ==
    IF g < e.generations
    THEN [e EXCEPT !.gen = g, !.pc = "fitness"]
    ELSE [e EXCEPT !.pc = "dispatch"]

\* The loop filling gen_tasks and the start of `await asyncio.gather(*gen_tasks)`:
\* task i goes to workers[i % len(workers)] with the prompt of variant i + 1
\* and its emphasis; all are issued together.
EvoIssue ==
    /\ UNCHANGED evoRest
    /\ evo.pc = "gen0"
    /\ LET workers == Workers(evo.agents)
           tasks == [i \in 1..evo.population |->
                        workers[((i - 1) % Len(workers)) + 1]]
       IN  evo' = [evo EXCEPT !.gen_tasks = tasks,
                              !.variants =
                                  [i \in 1..evo.population |->
                                      [number |-> i,
                                       emphasis |-> Emphasis(i - 1)]],
                              !.results = [i \in 1..evo.population |-> Pending],
                              !.calls = @ \o tasks,
                              !.pc = "gather"]

\* One of the concurrent generation-0 calls returns, in any order; gather keeps
\* each result at the position of its task.
EvoComplete ==
    /\ UNCHANGED evoRest
    /\ evo.pc = "gather"
    /\ \E i \in DOMAIN evo.results, out \in GenTexts :
        /\ evo.results[i] = Pending
        /\ evo' = [evo EXCEPT !.results[i] = out]

\* One of the concurrent generation-0 calls raises: gather re-raises it.
EvoTaskRaises ==
    /\ UNCHANGED evoRest
    /\ evo.pc = "gather"
    /\ \E i \in DOMAIN evo.results : evo.results[i] = Pending
    /\ evo' = [evo EXCEPT !.pc = "raised"]

\* gather returns once every task is done:
\* candidates = list(...); all_generations.append(list(candidates))
EvoJoin ==
    /\ UNCHANGED evoRest
    /\ evo.pc = "gather"
    /\ \A i \in DOMAIN evo.results : evo.results[i] # Pending
    /\ evo' = EvoLoop([evo EXCEPT !.candidates = evo.results,
                                  !.all_generations =
                                      Append(@, Len(evo.results))], 1)

\* The builder as evaluator whatever the mapping holds.
EvaluatorCodexOnly(agents) == "codex"

\* `evaluator = agents.get("ollama", codex)`
Evaluator(agents) == IF "ollama" \in Range(agents) THEN "ollama" ELSE "codex"

\* fitness_output = await evaluator.execute(fitness_prompt)
EvoFitness ==
    /\ UNCHANGED evoRest
    /\ evo.pc = "fitness"
    /\ \E out \in Texts :
        evo' = [evo EXCEPT !.fitness_output = out,
                           !.calls = Append(@, Evaluator(evo.agents)),
                           !.pc = "crossover"]

\* Number of candidates the crossover reply `out` holds.
Returned(out) == Len(ParseCandidates(Split(out)))

\* crossover_output = await claude.execute(crossover_prompt), the candidates
\* parsed from it, padded and truncated; all_generations.append(...).
\* `returned` keeps how many candidates the latest crossover reply held.
EvoCrossover ==
    /\ UNCHANGED evoRest
    /\ evo.pc = "crossover"
    /\ \E out \in CrossoverOutputs :
        LET new == NewGeneration(out, evo.population)
        IN  evo' = EvoLoop([evo EXCEPT !.candidates = new,
                                       !.all_generations = Append(@, Len(new)),
                                       !.returned = Returned(out),
                                       !.calls = Append(@, "claude")],
                           evo.gen + 1)

\* Sum of a sequence of numbers.
RECURSIVE Sum(_)
Sum(s) == IF s = <<>> THEN 0 ELSE Head(s) + Sum(Tail(s))

\* dispatch_output = await dispatch.execute(final_prompt); return {...}
EvoDispatch ==
    /\ UNCHANGED evoRest
    /\ evo.pc = "dispatch"
    /\ \E out \in Texts :
        evo' = [evo EXCEPT
                  !.calls = Append(@, "dispatch"),
                  !.pc = "done",
                  !.ret = [candidates |-> evo.candidates,
                           generations |-> Len(evo.all_generations),
                           population |-> evo.population,
                           dispatch_output |-> out,
                           total_candidates_evaluated |-> Sum(evo.all_generations),
                           strategy |-> "evolutionary"]]

\* An awaited sequential call (evaluator, crossover, dispatch) raises.
EvoAgentRaises ==
    /\ UNCHANGED evoRest
    /\ evo.pc \in {"fitness", "crossover", "dispatch"}
    /\ evo' = [evo EXCEPT
                 !.calls = Append(@, CASE evo.pc = "fitness" -> Evaluator(evo.agents)
                                       [] evo.pc = "crossover" -> "claude"
                                       [] evo.pc = "dispatch" -> "dispatch"),
                 !.pc = "raised"]

NextEvo ==
    \/ EvoLookup
    \/ EvoIssue
    \/ EvoComplete
    \/ EvoTaskRaises
    \/ EvoJoin
    \/ EvoFitness
    \/ EvoCrossover
    \/ EvoDispatch
    \/ EvoAgentRaises

InitEvo ==
    /\ sync = Idle
    /\ route = Idle
    /\ best = Idle
    /\ cross = Idle
    /\ EvoInit
    /\ adv = Idle /\ ver = Idle /\ mesh = Idle
    /\ eng = Idle /\ conf = Idle /\ fit = Idle /\ rtr = Idle
    /\ pipe = Idle /\ cons = Idle
    /\ hist = Idle
    /\ conc = Idle
    /\ rank = Idle
    /\ att = Idle
    /\ ser = Idle
    /\ store = Idle
    /\ twice = Idle

SpecEvo == InitEvo /\ [][NextEvo]_vars

\* C2: once generation 0 has been collected, and after every later generation,
\* the candidate list has exactly `population` elements, as has every recorded
\* generation, whatever the crossover calls returned; the returned 'candidates'
\* list has `population` elements.
C2_PopulationMaintained ==
    /\ evo.pc \in {"fitness", "crossover", "dispatch", "done"} =>
          /\ Len(evo.candidates) = evo.population
          /\ \A g \in DOMAIN evo.all_generations :
                evo.all_generations[g] = evo.population
    /\ evo.pc = "done" => Len(evo.ret.candidates) = evo.population

\* A run of three generations has returned whose last crossover reply held
\* one candidate for a population of two, so that the list was padded.
C2_Witness ==
    /\ evo.pc = "done"
    /\ evo.population = 2
    /\ Len(evo.all_generations) = 3
    /\ evo.returned = 1
    /\ evo.candidates[1] = evo.candidates[2]

(***************************************************************************)
(* VerificationLoop.execute                                                 *)
(***************************************************************************)

MaxIterations == 3

VerRequired == {"claude", "codex", "dispatch"}

\* The components a VerificationLoop run leaves alone.
verRest ==
    <<adv, evo, mesh, eng, conf, fit, rtr, pipe, cons, hist,
      conc, rank, att, ser, store, twice, cross, best, route, sync>>

\* VerificationLoop(iterations=n).execute entered with the agents `ag`.
VerEntered(n, ag) ==
    [pc |-> "lookup", iterations |-> n, agents |-> ag, i |-> 0,
     code_output |-> "", test_output |-> "",
     all_code |-> <<>>, all_tests |-> <<>>,
     calls |-> <<>>, ret |-> Idle]

VerInit ==
    \E n \in 0..MaxIterations, ag \in AgentDicts :
        ver = VerEntered(n, ag)

\* agents["claude"], agents["codex"], agents["dispatch"]
VerLookup ==
    /\ UNCHANGED verRest
    /\ ver.pc = "lookup"
    /\ ver' = [ver EXCEPT !.pc = IF VerRequired \subseteq Range(ver.agents)
                                 THEN "code" ELSE "raised"]

\* One iteration more than asked for.
VerInRangeInclusive(i, iterations) == i <= iterations

\* `i` is in range(1, self.iterations), for an i >= 1
VerInRange(i, iterations) == i < iterations

\* The head of `for i in range(1, self.iterations)` for the index `i`.
VerLoop(v, i) ==
    IF VerInRange(i, v.iterations)
    THEN [v EXCEPT !.i = i, !.pc = "fix"]
    ELSE [v EXCEPT !.pc = "dispatch"]

\* code_output = await claude.execute(code_prompt)
VerCode ==
    /\ UNCHANGED verRest
    /\ ver.pc = "code"
    /\ \E out \in Texts :
        ver' = [ver EXCEPT !.code_output = out,
                           !.calls = Append(@, "claude"),
                           !.pc = "test"]

\* test_output = await codex.execute(test_prompt);
\* all_code = [code_output]; all_tests = [test_output]; the loop is entered.
VerTest ==
    /\ UNCHANGED verRest
    /\ ver.pc = "test"
    /\ \E out \in Texts :
        ver' = VerLoop([ver EXCEPT !.test_output = out,
                                   !.all_code = <<ver.code_output>>,
                                   !.all_tests = <<out>>,
                                   !.calls = Append(@, "codex")], 1)

\* The fix always given to codex.
FixerAlwaysCodex(i) == "codex"

\* `if i % 2 == 1: codex fixes, else: claude fixes`
Fixer(i) == IF i % 2 = 1 THEN "codex" ELSE "claude"

\* `if i % 2 == 1: claude writes the additional tests, else: codex`
Tester(i) == IF i % 2 = 1 THEN "claude" ELSE "codex"

\* code_output = await <fixer>.execute(fix_prompt); all_code.append(code_output)
VerFix ==
    /\ UNCHANGED verRest
    /\ ver.pc = "fix"
    /\ \E out \in Texts :
        ver' = [ver EXCEPT !.code_output = out,
                           !.all_code = Append(@, out),
                           !.calls = Append(@, Fixer(ver.i)),
                           !.pc = "more_tests"]

\* test_output = await <tester>.execute(more_tests_prompt);
\* all_tests.append(test_output); next iteration
VerMoreTests ==
    /\ UNCHANGED verRest
    /\ ver.pc = "more_tests"
    /\ \E out \in Texts :
        ver' = VerLoop([ver EXCEPT !.test_output = out,
                                   !.all_tests = Append(@, out),
                                   !.calls = Append(@, Tester(ver.i))],
                       ver.i + 1)

\* dispatch_output = await dispatch.execute(dispatch_prompt); return {...}
VerDispatch ==
    /\ UNCHANGED verRest
    /\ ver.pc = "dispatch"
    /\ \E out \in Texts :
        ver' = [ver EXCEPT
                  !.calls = Append(@, "dispatch"),
                  !.pc = "done",
                  !.ret = [code_output |-> ver.code_output,
                           test_output |-> ver.test_output,
                           dispatch_output |-> out,
                           iterations |-> ver.iterations,
                           code_versions |-> Len(ver.all_code),
                           test_versions |-> Len(ver.all_tests),
                           strategy |-> "verification_loop"]]

\* The role awaited at each call site of VerificationLoop.execute.
VerCallee(v) ==
    CASE v.pc = "code" -> "claude"
      [] v.pc = "test" -> "codex"
      [] v.pc = "fix" -> Fixer(v.i)
      [] v.pc = "more_tests" -> Tester(v.i)
      [] v.pc = "dispatch" -> "dispatch"

\* An awaited agent call raises: execute has no try/except, the error leaves it.
VerAgentRaises ==
    /\ UNCHANGED verRest
    /\ ver.pc \in {"code", "test", "fix", "more_tests", "dispatch"}
    /\ ver' = [ver EXCEPT !.calls = Append(@, VerCallee(ver)),
                          !.pc = "raised"]

NextVer ==
    \/ VerLookup
    \/ VerCode
    \/ VerTest
    \/ VerFix
    \/ VerMoreTests
    \/ VerDispatch
    \/ VerAgentRaises

InitVer ==
    /\ sync = Idle
    /\ route = Idle
    /\ best = Idle
    /\ cross = Idle
    /\ VerInit
    /\ adv = Idle /\ evo = Idle /\ mesh = Idle
    /\ eng = Idle /\ conf = Idle /\ fit = Idle /\ rtr = Idle
    /\ pipe = Idle /\ cons = Idle
    /\ hist = Idle
    /\ conc = Idle
    /\ rank = Idle
    /\ att = Idle
    /\ ser = Idle
    /\ store = Idle
    /\ twice = Idle

SpecVer == InitVer /\ [][NextVer]_vars

\* C3 (as stated): the mapping returned by VerificationLoop(iterations=N) has
\* code_versions = N = test_versions and iterations = N, for every N >= 0.
C3_VersionsEqualIterations ==
    ver.pc = "done" =>
        /\ ver.ret.code_versions = ver.iterations
        /\ ver.ret.test_versions = ver.iterations
        /\ ver.ret.iterations = ver.iterations

\* C3 (amended): the mapping returned by VerificationLoop(iterations=N) has
\* iterations = N for every N >= 0, and code_versions = test_versions = N for
\* every N >= 1; for N = 0 both are 1 (iteration 0 always runs).
C3_VersionsAmended ==
    ver.pc = "done" =>
        /\ ver.ret.code_versions = IF ver.iterations >= 1 THEN ver.iterations ELSE 1
        /\ ver.ret.test_versions = ver.ret.code_versions
        /\ ver.ret.iterations = ver.iterations

\* A run of three iterations has returned, the fixers having alternated.
C3_Witness ==
    /\ ver.pc = "done"
    /\ ver.iterations = 3
    /\ ver.ret.code_versions = 3
    /\ ver.calls = <<"claude", "codex", "codex", "claude", "claude", "codex",
                     "dispatch">>

(***************************************************************************)
(* ConfidenceReport                                                         *)
(*                                                                          *)
(* cross_vendor_agreement is a float; it is kept in tenths (7 stands for    *)
(* 0.7), and int(agreement * 15) is computed exactly on the tenths.         *)
(***************************************************************************)

MaxAgreementTenths == 20
MaxVulnerabilities == 2
MaxModels == 2

\* Values a caller may give cross_vendor_agreement: the field is a bare float,
\* no validator restricts it to [0, 1].
AgreementTenths == (-MaxAgreementTenths)..MaxAgreementTenths

\* The fields of a ConfidenceReport with the values each may be given.
ConfFieldValues ==
    [architecture_preserved |-> BOOLEAN,
     tests_passing |-> BOOLEAN,
     vulnerabilities_found |-> 0..MaxVulnerabilities,
     dependencies_verified |-> BOOLEAN,
     owasp_clean |-> BOOLEAN,
     models_consulted |-> 0..MaxModels,
     cross_vendor_agreement |-> AgreementTenths]

\* Every ConfidenceReport that can be constructed.
ConfidenceReports ==
    [architecture_preserved : ConfFieldValues.architecture_preserved,
     tests_passing : ConfFieldValues.tests_passing,
     vulnerabilities_found : ConfFieldValues.vulnerabilities_found,
     dependencies_verified : ConfFieldValues.dependencies_verified,
     owasp_clean : ConfFieldValues.owasp_clean,
     models_consulted : ConfFieldValues.models_consulted,
     cross_vendor_agreement : ConfFieldValues.cross_vendor_agreement]

\* Rounding toward minus infinity instead of toward zero.
FloorDiv(num, den) == num \div den

\* int(x) for x = num / den, den > 0: the fraction is dropped, toward zero.
IntTrunc(num, den) ==
    IF num >= 0 THEN num \div den ELSE -((-num) \div den)

\* ConfidenceReport.score, statement by statement.
Score(r) ==
    LET s0 == 0
        s1 == IF r.architecture_preserved THEN s0 + 20 ELSE s0
        s2 == IF r.tests_passing THEN s1 + 20 ELSE s1
        s3 == IF r.vulnerabilities_found = 0 THEN s2 + 15 ELSE s2
        s4 == IF r.dependencies_verified THEN s3 + 15 ELSE s3
        s5 == IF r.owasp_clean THEN s4 + 15 ELSE s4
        s6 == s5 + IntTrunc(r.cross_vendor_agreement * 15, 10)
    IN  Min(s6, 100)

\* The components a ConfidenceReport leaves alone.
confRest ==
    <<adv, evo, ver, mesh, eng, fit, rtr, pipe, cons, hist,
      conc, rank, att, ser, store, twice, cross, best, route, sync>>

\* ConfidenceReport(...): `read` holds the latest read of the score property
\* (none at first), with the field values it was computed from; `reassigned`
\* tells whether a field has been assigned since construction.
ConfInit ==
    \E r \in ConfidenceReports :
        conf = [report |-> r, read |-> <<>>, reassigned |-> FALSE]

\* report.<field> = value: the model is not frozen, any field can be reassigned.
\* The value read before the assignment is dropped.
ConfAssign ==
    /\ UNCHANGED confRest
    /\ \E f \in DOMAIN ConfFieldValues :
        \E v \in ConfFieldValues[f] \ {conf.report[f]} :
            conf' = [report |-> [conf.report EXCEPT ![f] = v], read |-> <<>>,
                     reassigned |-> TRUE]

\* report.score: the computed property runs on the current field values.
ConfReadScore ==
    /\ UNCHANGED confRest
    /\ conf' = [conf EXCEPT !.read = <<[fields |-> conf.report,
                                        score |-> Score(conf.report)]>>]

NextConf ==
    \/ ConfAssign
    \/ ConfReadScore

InitConf ==
    /\ sync = Idle
    /\ route = Idle
    /\ best = Idle
    /\ cross = Idle
    /\ ConfInit
    /\ adv = Idle /\ evo = Idle /\ ver = Idle /\ mesh = Idle
    /\ eng = Idle /\ fit = Idle /\ rtr = Idle
    /\ pipe = Idle /\ cons = Idle
    /\ hist = Idle
    /\ conc = Idle
    /\ rank = Idle
    /\ att = Idle
    /\ ser = Idle
    /\ store = Idle
    /\ twice = Idle

SpecConf == InitConf /\ [][NextConf]_vars

\* C5: for every ConfidenceReport that can be constructed, whatever its
\* cross_vendor_agreement, the score read from it is an integer in [0,100].
C5_ScoreInRange ==
    conf.read # <<>> => conf.read[1].score \in 0..100

\* 1 if the condition holds, else 0.
Ind(b) == IF b THEN 1 ELSE 0

MaxResultKeys == 3

Str(text) == [t |-> "str", v |-> text]
IntVal(text) == [t |-> "int", v |-> text]
None == [t |-> "none", v |-> ""]

OUTPUT == "_output"
Key(name) == <<name, OUTPUT>>

\* The values a strategy may store under each key it returns.
ResultValues(key) ==
    CASE key = Key("claude") -> {Str(""), Str("a"), Str("b")}
      [] key = Key("codex") -> {Str(""), Str("a"), Str("b")}
      [] key = Key("dispatch") -> {Str("a"), None}
      [] key = Key("build") -> {Str("b"), None}
      [] key = <<"fast", OUTPUT, "model", OUTPUT>> -> {Str("a")}
      [] key = <<"strategy">> -> {Str("consensus")}
      [] key = <<"rounds">> -> {IntVal("3")}

ResultKeys ==
    {Key("claude"), Key("codex"), Key("dispatch"), Key("build"),
     <<"fast", OUTPUT, "model", OUTPUT>>, <<"strategy">>, <<"rounds">>}

ResultItems == UNION {{<<k, v>> : v \in ResultValues(k)} : k \in ResultKeys}

\* The result mappings a strategy may hand to the engine.
StrategyResults ==
    {r \in UNION {[1..n -> ResultItems] : n \in 0..MaxResultKeys} :
        \A i, j \in DOMAIN r : i # j => r[i][1] # r[j][1]}

\* key in result
HasKey(result, key) == \E i \in DOMAIN result : result[i][1] = key

\* result.get(key): the value, or None for a missing key
Get(result, key) ==
    IF HasKey(result, key)
    THEN result[CHOOSE i \in DOMAIN result : result[i][1] = key][2]
    ELSE None

\* isinstance(value, str)
IsStr(value) == value.t = "str"

\* bool(value): an empty string, 0 and None are false
Truthy(value) ==
    CASE value.t = "str" -> value.v # ""
      [] value.t = "int" -> value.v # "0"
      [] value.t = "none" -> FALSE

\* Stage enumeration
ARCHITECT == 1
BUILDER == 2
SPECIALIST == 3
ACCELERATOR == 4
DISPATCH == 5

\* stage_map.get(stage_name, Stage.DISPATCH)
StageOf(stage_name) ==
    CASE stage_name = <<"claude">> -> ARCHITECT
      [] stage_name = <<"codex">> -> BUILDER
      [] stage_name = <<"ollama">> -> SPECIALIST
      [] stage_name = <<"build">> -> BUILDER
      [] stage_name = <<"attack">> -> BUILDER
      [] stage_name = <<"fuzz">> -> SPECIALIST
      [] stage_name = <<"dispatch">> -> DISPATCH
      [] OTHER -> DISPATCH

\* key.endswith("_output")
EndsWithOutput(key) == key # <<>> /\ key[Len(key)] = OUTPUT

\* key.replace("_output", ""): every occurrence is removed
ReplaceOutput(key) == SelectSeq(key, LAMBDA tok : tok # OUTPUT)

\* The loop over result.items() that fills stage_outputs.
RECURSIVE StageOutputs(_)
StageOutputs(result) ==
    IF result = <<>> THEN <<>>
    ELSE LET key == Head(result)[1]
             value == Head(result)[2]
             stage_name == ReplaceOutput(key)
         IN  (IF EndsWithOutput(key) /\ IsStr(value)
              THEN <<[stage |-> StageOf(stage_name),
                      agent_name |-> stage_name,
                      content |-> value.v]>>
              ELSE <<>>) \o StageOutputs(Tail(result))

\* The `code` taken from build_output before dispatch_output.
CodeOfBuildFirst(result) ==
    IF IsStr(Get(result, Key("build"))) THEN Get(result, Key("build")).v
    ELSE IF IsStr(Get(result, Key("dispatch"))) THEN Get(result, Key("dispatch")).v
    ELSE ""

\* The `code` of the PipelineResult.
CodeOf(result) ==
    IF IsStr(Get(result, Key("dispatch"))) THEN Get(result, Key("dispatch")).v
    ELSE IF IsStr(Get(result, Key("build"))) THEN Get(result, Key("build")).v
    ELSE ""

\* `if result.get("claude_output") and result.get("codex_output")`
BothTruthy(result) ==
    Truthy(Get(result, Key("claude"))) /\ Truthy(Get(result, Key("codex")))

\* Full agreement whatever the two outputs are.
AgreementFull(result) == 10

\* agreement, in tenths: 1.0, or 0.7 for two outputs that differ
Agreement(result) ==
    IF BothTruthy(result)
    THEN IF Get(result, Key("claude")) = Get(result, Key("codex"))
         THEN 10 ELSE 7
    ELSE 10

\* The PipelineResult with owasp_clean telling whether the strategy
\* returned attack findings.
PipelineResultJudged(agents, result, strategy_name) ==
    [code |-> CodeOf(result),
     stage_outputs |-> StageOutputs(result),
     confidence |->
        [architecture_preserved |-> TRUE,
         tests_passing |-> TRUE,
         vulnerabilities_found |-> 0,
         dependencies_verified |-> "ollama" \in Range(agents),
         owasp_clean |-> ~Truthy(Get(result, Key("attack"))),
         models_consulted |-> Len(agents),
         cross_vendor_agreement |-> Agreement(result)],
     security |-> [owasp_clean |-> FALSE, dependencies_verified |-> FALSE,
                   supply_chain_risks |-> 0, vulnerabilities_found |-> 0,
                   attacks_survived |-> 0],
     summary |-> <<"Strategy: ", strategy_name>>]

\* The PipelineResult that run builds of a strategy result.
PipelineResult(agents, result, strategy_name) ==
    [code |-> CodeOf(result),
     stage_outputs |-> StageOutputs(result),
     confidence |->
        [architecture_preserved |-> TRUE,
         tests_passing |-> TRUE,
         vulnerabilities_found |-> 0,
         dependencies_verified |-> "ollama" \in Range(agents),
         owasp_clean |-> TRUE,
         models_consulted |-> Len(agents),
         cross_vendor_agreement |-> Agreement(result)],
     security |-> [owasp_clean |-> FALSE, dependencies_verified |-> FALSE,
                   supply_chain_risks |-> 0, vulnerabilities_found |-> 0,
                   attacks_survived |-> 0],
     summary |-> <<"Strategy: ", strategy_name>>]

StrategyNames ==
    {"consensus", "adversarial", "pipeline", "cognitive_mesh", "evolutionary",
     "verification_loop", "adaptive_router"}

\* The components the engine leaves alone.
engRest ==
    <<adv, evo, ver, mesh, conf, fit, rtr, pipe, cons, hist,
      conc, rank, att, ser, store, twice, cross, best, route, sync>>

\* DualEngine(auto_detect=...): no agent is registered; `runs` holds the
\* completed run, with the strategy result it normalised.  One run of the
\* engine is followed, on the agents registered before it.
EngInit == eng = [agents |-> <<>>, runs |-> <<>>]

\* register_agent(name, agent): a new key goes last, a known key keeps its place.
EngRegisterAgent ==
    /\ UNCHANGED engRest
    /\ eng.runs = <<>>
    /\ \E name \in Roles :
        /\ name \notin Range(eng.agents)
        /\ eng' = [eng EXCEPT !.agents = Append(@, name)]

\* run(strategy, task): the strategy has returned `result`; run normalises it.
EngRun ==
    /\ UNCHANGED engRest
    /\ eng.runs = <<>>
    /\ \E result \in StrategyResults, name \in {"consensus", "adversarial"} :
        eng' = [eng EXCEPT !.runs =
                   <<[result |-> result,
                      out |-> PipelineResult(eng.agents, result, name)]>>]

NextEng ==
    \/ EngRegisterAgent
    \/ EngRun

InitEng ==
    /\ sync = Idle
    /\ route = Idle
    /\ best = Idle
    /\ cross = Idle
    /\ EngInit
    /\ adv = Idle /\ evo = Idle /\ ver = Idle /\ mesh = Idle
    /\ conf = Idle /\ fit = Idle /\ rtr = Idle
    /\ pipe = Idle /\ cons = Idle
    /\ hist = Idle
    /\ conc = Idle
    /\ rank = Idle
    /\ att = Idle
    /\ ser = Idle
    /\ store = Idle
    /\ twice = Idle

SpecEng == InitEng /\ [][NextEng]_vars

\* Both keys are in the result, whatever their values.
BothPresent(result) ==
    HasKey(result, Key("claude")) /\ HasKey(result, Key("codex"))

\* C4: run sets cross_vendor_agreement to 1.0 when claude_output and
\* codex_output are both present and equal, to 0.7 whenever both are present
\* and differ in any way (also when one of them is the empty string), and to
\* 1.0 when either key is absent.
C4_AgreementByPresence ==
    \A k \in DOMAIN eng.runs :
        LET result == eng.runs[k].result
            agreement == eng.runs[k].out.confidence.cross_vendor_agreement
        IN  IF BothPresent(result)
            THEN agreement =
                    IF Get(result, Key("claude")) = Get(result, Key("codex"))
                    THEN 10 ELSE 7
            ELSE agreement = 10

(***************************************************************************)
(* FitnessScore, AgentFitnessEvaluator, StaticFitnessEvaluator,             *)
(* FitnessRunner.evaluate                                                   *)
(*                                                                          *)
(* Sub-scores are whole numbers here, so the weighted sum is a multiple of  *)
(* 0.05 and round(raw, 2) returns it unchanged; totals are kept in          *)
(* hundredths (4000 stands for 40.0).                                       *)
(***************************************************************************)

MaxEvaluators == 2

Dimensions ==
    {"correctness", "performance", "readability", "robustness", "security"}

\* FitnessScore(correctness, performance, readability, robustness, security)
FitnessScore(c, p, r, b, s) ==
    [correctness |-> c, performance |-> p, readability |-> r,
     robustness |-> b, security |-> s]

\* FitnessScore(): every field defaults to 0.0
DefaultScore == FitnessScore(0, 0, 0, 0, 0)

\* The weights of FitnessScore.total, in hundredths.
Weights ==
    [correctness |-> 35, performance |-> 15, readability |-> 15,
     robustness |-> 20, security |-> 15]

\* FitnessScore.total, in hundredths
Total(score) ==
    score.correctness * Weights.correctness
    + score.performance * Weights.performance
    + score.readability * Weights.readability
    + score.robustness * Weights.robustness
    + score.security * Weights.security

\* What an agent may answer to the scoring prompt: a text without a '{...}'
\* block, a block that is not valid JSON, or a JSON object that gives each
\* dimension a number, a value float() rejects (a word, null, a list), or
\* leaves it out.  The numbers an agent may give are not restricted to 0-100.
JsonNumbers == {-10, 120}
Absent == "absent"
NotANumber == "not-a-number"
JsonValues == {Absent, NotANumber, "-10", "120"}

\* float(text) of a JSON number
NumberOf(text) == CASE text = "-10" -> -10 [] text = "120" -> 120

Responses ==
    {[kind |-> "text"], [kind |-> "invalid"]}
    \cup {[kind |-> "object", data |-> d] : d \in [Dimensions -> JsonValues]}

\* float(data.get(key, 0))
Field(data, key) == IF data[key] = Absent THEN 0 ELSE NumberOf(data[key])

\* AgentFitnessEvaluator._parse_scores: no block, invalid JSON or a value that
\* float() rejects give FitnessScore(); else the five values as given.
ParseScores(response) ==
    IF response.kind = "object"
       /\ \A k \in Dimensions : response.data[k] # NotANumber
    THEN FitnessScore(Field(response.data, "correctness"),
                      Field(response.data, "performance"),
                      Field(response.data, "readability"),
                      Field(response.data, "robustness"),
                      Field(response.data, "security"))
    ELSE DefaultScore

\* What StaticFitnessEvaluator.score reads of the code: the markers present
\* and how many of the three dangerous patterns occur.
CodeFeatures ==
    [has_docstrings : BOOLEAN, has_type_hints : BOOLEAN,
     has_error_handling : BOOLEAN, has_validation : BOOLEAN,
     short_lines : BOOLEAN, dangerous : 0..3]

Max(a, b) == IF a > b THEN a ELSE b

\* StaticFitnessEvaluator.score
StaticScore(f) ==
    LET readability == 50 + (IF f.has_docstrings THEN 20 ELSE 0)
                          + (IF f.has_type_hints THEN 15 ELSE 0)
                          + (IF f.short_lines THEN 15 ELSE 0)
        robustness == 30 + (IF f.has_error_handling THEN 35 ELSE 0)
                         + (IF f.has_validation THEN 35 ELSE 0)
        security == 50 - 15 * f.dangerous
    IN  FitnessScore(50, 50, Min(readability, 100), Min(robustness, 100),
                     Max(security, 0))

\* Every score an evaluator may return to the runner.
EvaluatorScores ==
    {ParseScores(r) : r \in Responses} \cup {StaticScore(f) : f \in CodeFeatures}

\* The turn keeps the latest evaluator's values.
CombineLast(score, partial) == partial

\* One turn of the loop of FitnessRunner.evaluate: the maximum per dimension.
Combine(score, partial) ==
    FitnessScore(Max(score.correctness, partial.correctness),
                 Max(score.performance, partial.performance),
                 Max(score.readability, partial.readability),
                 Max(score.robustness, partial.robustness),
                 Max(score.security, partial.security))

\* The components a fitness evaluation leaves alone.
fitRest ==
    <<adv, evo, ver, mesh, eng, conf, rtr, pipe, cons, hist,
      conc, rank, att, ser, store, twice, cross, best, route, sync>>

\* `score` is the FitnessScore object followed: the one an evaluator returns
\* (origin "agent" or "static") or the one FitnessRunner.evaluate builds up
\* (origin "runner", after n evaluators); `total` holds the latest read of
\* score.total and `seen` the greatest value the evaluators asked so far
\* returned for each dimension.
FitInit ==
    fit = [origin |-> "new", score |-> DefaultScore, n |-> 0, total |-> <<>>,
           seen |-> DefaultScore]

\* AgentFitnessEvaluator.score: the agent's response is parsed.
FitAgentScore ==
    /\ UNCHANGED fitRest
    /\ fit.origin = "new"
    /\ \E response \in Responses :
        fit' = [fit EXCEPT !.origin = "agent", !.score = ParseScores(response)]

\* StaticFitnessEvaluator.score
FitStaticScore ==
    /\ UNCHANGED fitRest
    /\ fit.origin = "new"
    /\ \E f \in CodeFeatures :
        fit' = [fit EXCEPT !.origin = "static", !.score = StaticScore(f)]

\* FitnessRunner.evaluate, one evaluator of self._evaluators at a time.
FitEvaluateStep ==
    /\ UNCHANGED fitRest
    /\ fit.origin \in {"new", "runner"}
    /\ fit.n < MaxEvaluators
    /\ \E partial \in EvaluatorScores :
        fit' = [origin |-> "runner", score |-> Combine(fit.score, partial),
                n |-> fit.n + 1, total |-> <<>>,
                seen |-> IF fit.n = 0 THEN partial
                         ELSE [d \in Dimensions |->
                                 IF partial[d] > fit.seen[d]
                                 THEN partial[d] ELSE fit.seen[d]]]

\* score.total
FitReadTotal ==
    /\ UNCHANGED fitRest
    /\ fit.total = <<>>
    /\ fit' = [fit EXCEPT !.total = <<Total(fit.score)>>]

NextFit ==
    \/ FitAgentScore
    \/ FitStaticScore
    \/ FitEvaluateStep
    \/ FitReadTotal

InitFit ==
    /\ sync = Idle
    /\ route = Idle
    /\ best = Idle
    /\ cross = Idle
    /\ FitInit
    /\ adv = Idle /\ evo = Idle /\ ver = Idle /\ mesh = Idle
    /\ eng = Idle /\ conf = Idle /\ rtr = Idle
    /\ pipe = Idle /\ cons = Idle
    /\ hist = Idle
    /\ conc = Idle
    /\ rank = Idle
    /\ att = Idle
    /\ ser = Idle
    /\ store = Idle
    /\ twice = Idle

SpecFit == InitFit /\ [][NextFit]_vars

\* C7: for every FitnessScore the code can construct, those parsed from an
\* agent's response and those combined by FitnessRunner included, total equals
\* 0.35*correctness + 0.15*performance + 0.15*readability + 0.20*robustness
\* + 0.15*security and lies in [0,100].
C7_TotalWeightedInRange ==
    fit.total # <<>> =>
        /\ fit.total[1] = 35 * fit.score.correctness + 15 * fit.score.performance
                          + 15 * fit.score.readability + 20 * fit.score.robustness
                          + 15 * fit.score.security
        /\ fit.total[1] >= 0
        /\ fit.total[1] <= 100 * 100

(***************************************************************************)
(* CognitiveMesh.execute                                                    *)
(***************************************************************************)

\* Only the first worker is given a call.
MeshWorkersFirstOnly(agents) ==
    LET workers == SelectSeq(agents, LAMBDA k : k # "dispatch")
    IN  IF workers = <<>> THEN workers ELSE <<workers[1]>>

\* The workers taken to be every registered agent, the merger included.
MeshWorkersAll(agents) == agents

\* workers = {k: v for k, v in agents.items() if k != "dispatch"}
MeshWorkers(agents) == SelectSeq(agents, LAMBDA k : k # "dispatch")

\* The text the call to `name` returned, read from the completions so far
\* (<<name, text>> in the order the calls finished).
ReplyOf(completions, name) ==
    completions[CHOOSE k \in DOMAIN completions : completions[k][1] = name][2]

\* The results handed out in the order the calls finished.
GatherAsCompleted(tasks, completions) ==
    [i \in DOMAIN tasks |-> completions[i][2]]

\* await asyncio.gather(*tasks.values()): the result of each awaitable at the
\* position of that awaitable, whatever order they finished in.
Gather(tasks, completions) ==
    [i \in DOMAIN tasks |-> ReplyOf(completions, tasks[i])]

\* dict(zip(tasks.keys(), gathered))
Zip(keys, values) == [i \in DOMAIN keys |-> <<keys[i], values[i]>>]

\* The components a CognitiveMesh run leaves alone.
meshRest ==
    <<adv, evo, ver, eng, conf, fit, rtr, pipe, cons, hist,
      conc, rank, att, ser, store, twice, cross, best, route, sync>>

\* CognitiveMesh().execute entered with the agents `ag`.
MeshEntered(ag) ==
    [pc |-> "lookup", agents |-> ag, tasks |-> <<>>,
     completions |-> <<>>, results |-> <<>>,
     calls |-> <<>>, ret |-> Idle]

MeshInit ==
    \E ag \in AgentDicts :
        mesh = MeshEntered(ag)

\* dispatch = agents["dispatch"]: KeyError without that role.
MeshLookup ==
    /\ UNCHANGED meshRest
    /\ mesh.pc = "lookup"
    /\ mesh' = [mesh EXCEPT !.pc = IF "dispatch" \in Range(mesh.agents)
                                   THEN "fire" ELSE "raised"]

\* tasks = {name: agent.execute(prompt) ...} and the start of gather: every
\* worker is called once, all calls are in flight together.
MeshFire ==
    /\ UNCHANGED meshRest
    /\ mesh.pc = "fire"
    /\ LET workers == MeshWorkers(mesh.agents)
       IN  mesh' = [mesh EXCEPT !.tasks = workers,
                                !.calls = @ \o workers,
                                !.pc = "gather"]

\* The calls still in flight.
InFlight(m) == Range(m.tasks) \ {m.completions[k][1] : k \in DOMAIN m.completions}

\* One of the concurrent worker calls returns, in any order.
MeshComplete ==
    /\ UNCHANGED meshRest
    /\ mesh.pc = "gather"
    /\ \E name \in InFlight(mesh), out \in Texts :
        mesh' = [mesh EXCEPT !.completions = Append(@, <<name, out>>)]

\* One of the concurrent worker calls raises: gather re-raises it.
MeshTaskRaises ==
    /\ UNCHANGED meshRest
    /\ mesh.pc = "gather"
    /\ InFlight(mesh) # {}
    /\ mesh' = [mesh EXCEPT !.pc = "raised"]

\* gather returns once every call is done: results = dict(zip(...)).
MeshJoin ==
    /\ UNCHANGED meshRest
    /\ mesh.pc = "gather"
    /\ InFlight(mesh) = {}
    /\ mesh' = [mesh EXCEPT
                  !.results = Zip(mesh.tasks, Gather(mesh.tasks, mesh.completions)),
                  !.pc = "dispatch"]

\* dispatch_output = await dispatch.execute(merge_prompt); return {...}
MeshDispatch ==
    /\ UNCHANGED meshRest
    /\ mesh.pc = "dispatch"
    /\ \E out \in Texts :
        mesh' = [mesh EXCEPT
                   !.calls = Append(@, "dispatch"),
                   !.pc = "done",
                   !.ret = [outputs |-> [i \in DOMAIN mesh.results |->
                                            <<Key(mesh.results[i][1]),
                                              mesh.results[i][2]>>],
                            dispatch_output |-> out,
                            agents_consulted |-> Len(mesh.results),
                            strategy |-> "cognitive_mesh"]]

\* The dispatch call raises: the error leaves execute.
MeshDispatchRaises ==
    /\ UNCHANGED meshRest
    /\ mesh.pc = "dispatch"
    /\ mesh' = [mesh EXCEPT !.calls = Append(@, "dispatch"), !.pc = "raised"]

NextMesh ==
    \/ MeshLookup
    \/ MeshFire
    \/ MeshComplete
    \/ MeshTaskRaises
    \/ MeshJoin
    \/ MeshDispatch
    \/ MeshDispatchRaises

InitMesh ==
    /\ sync = Idle
    /\ route = Idle
    /\ best = Idle
    /\ cross = Idle
    /\ MeshInit
    /\ adv = Idle /\ evo = Idle /\ ver = Idle /\ eng = Idle
    /\ conf = Idle /\ fit = Idle /\ rtr = Idle
    /\ pipe = Idle /\ cons = Idle
    /\ hist = Idle
    /\ conc = Idle
    /\ rank = Idle
    /\ att = Idle
    /\ ser = Idle
    /\ store = Idle
    /\ twice = Idle

SpecMesh == InitMesh /\ [][NextMesh]_vars

\* The non-dispatch roles of the agent set a run was given.
NonDispatch(agents) == Range(agents) \ {"dispatch"}

\* C8: a CognitiveMesh run that returns, given W non-dispatch roles, returns
\* exactly W keys '<role>_output', one per non-dispatch role, each holding the
\* text that role's own agent returned whatever the completion order, plus
\* 'dispatch_output', with agents_consulted == W; every non-dispatch agent was
\* called exactly once and dispatch exactly once.
C8_MeshOwnOutputs ==
    mesh.pc = "done" =>
        LET W == Cardinality(NonDispatch(mesh.agents))
            outs == mesh.ret.outputs
        IN  /\ Len(outs) = W
            /\ {outs[i][1] : i \in DOMAIN outs}
                   = {Key(role) : role \in NonDispatch(mesh.agents)}
            /\ \A i \in DOMAIN outs : \A role \in NonDispatch(mesh.agents) :
                   outs[i][1] = Key(role)
                       => outs[i][2] = ReplyOf(mesh.completions, role)
            /\ mesh.ret.dispatch_output \in Texts
            /\ mesh.ret.agents_consulted = W
            /\ \A role \in NonDispatch(mesh.agents) :
                   CallsTo(mesh.calls, role) = 1
            /\ CallsTo(mesh.calls, "dispatch") = 1
            /\ Len(mesh.calls) = W + 1

\* A returned run with three workers whose calls finished in the reverse of
\* the order they were issued in, with differing texts.
C8_Witness ==
    /\ mesh.pc = "done"
    /\ Len(mesh.tasks) = 3
    /\ \A k \in 1..3 : mesh.completions[k][1] = mesh.tasks[4 - k]
    /\ mesh.completions[1][2] # mesh.completions[3][2]
    /\ mesh.ret.agents_consulted = 3

(***************************************************************************)
(* RoutingHistory and AdaptiveRouter.select_strategy                        *)
(*                                                                          *)
(* A text is the sequence of its characters, so that lower() and the        *)
(* substring test `kw in task_lower` are computed as the code computes      *)
(* them.  Scores are kept in tenths (10 stands for 1.0).                    *)
(***************************************************************************)

MaxStrategies == 2
MaxHistory == 2

\* TASK_SIGNALS, in the order the dict declares its items.
TASK_SIGNALS ==
    <<
    <<"security",
       <<<<"s", "e", "c", "u", "r", "i", "t", "y">>,
         <<"a", "u", "t", "h">>,
         <<"e", "n", "c", "r", "y", "p", "t">>,
         <<"x", "s", "s">>,
         <<"i", "n", "j", "e", "c", "t", "i", "o", "n">>,
         <<"o", "w", "a", "s", "p">>,
         <<"v", "u", "l", "n", "e", "r", "a", "b", "i", "l", "i", "t", "y">>>>>>,
    <<"performance",
       <<<<"o", "p", "t", "i", "m", "i", "z", "e">>,
         <<"f", "a", "s", "t">>,
         <<"p", "e", "r", "f", "o", "r", "m", "a", "n", "c", "e">>,
         <<"b", "e", "n", "c", "h", "m", "a", "r", "k">>,
         <<"c", "a", "c", "h", "e">>,
         <<"l", "a", "t", "e", "n", "c", "y">>>>>>,
    <<"simple",
       <<<<"s", "i", "m", "p", "l", "e">>,
         <<"b", "a", "s", "i", "c">>,
         <<"h", "e", "l", "l", "o">>,
         <<"p", "r", "i", "n", "t">>,
         <<"t", "r", "i", "v", "i", "a", "l">>,
         <<"s", "m", "a", "l", "l">>>>>>,
    <<"complex",
       <<<<"a", "r", "c", "h", "i", "t", "e", "c", "t", "u", "r", "e">>,
         <<"s", "y", "s", "t", "e", "m">>,
         <<"d", "i", "s", "t", "r", "i", "b", "u", "t", "e", "d">>,
         <<"m", "i", "c", "r", "o", "s", "e", "r", "v", "i", "c", "e">>,
         <<"p", "i", "p", "e", "l", "i", "n", "e">>>>>>,
    <<"testing",
       <<<<"t", "e", "s", "t">>,
         <<"c", "o", "v", "e", "r", "a", "g", "e">>,
         <<"v", "e", "r", "i", "f", "y">>,
         <<"v", "a", "l", "i", "d", "a", "t", "e">>,
         <<"a", "s", "s", "e", "r", "t">>>>>>
    >>

\* DEFAULT_ROUTING.get(signal)
DEFAULT_ROUTING(signal) ==
    CASE signal = "security" -> "adversarial"
      [] signal = "performance" -> "evolutionary"
      [] signal = "simple" -> "consensus"
      [] signal = "complex" -> "pipeline"
      [] signal = "testing" -> "verification_loop"

UpperCase ==
    <<"A", "B", "C", "D", "E", "F", "G", "H", "I", "J", "K", "L", "M", "N", "O", "P", "Q", "R", "S", "T", "U", "V", "W", "X", "Y", "Z">>
LowerCase ==
    <<"a", "b", "c", "d", "e", "f", "g", "h", "i", "j", "k", "l", "m", "n", "o", "p", "q", "r", "s", "t", "u", "v", "w", "x", "y", "z">>

\* str.lower(), one character at a time
LowerChar(c) ==
    IF \E i \in DOMAIN UpperCase : UpperCase[i] = c
    THEN LowerCase[CHOOSE i \in DOMAIN UpperCase : UpperCase[i] = c]
    ELSE c
Lower(text) == [i \in DOMAIN text |-> LowerChar(text[i])]

\* kw in text
Contains(text, kw) ==
    \E i \in 0..(Len(text) - Len(kw)) : SubSeq(text, i + 1, i + Len(kw)) = kw

\* any(kw in task_lower for kw in keywords)
AnyKeyword(task_lower, keywords) ==
    \E k \in DOMAIN keywords : Contains(task_lower, keywords[k])

\* RoutingHistory._extract_signals: the categories with a keyword in the
\* lower-cased task, in declared order.
ExtractSignals(task) ==
    LET task_lower == Lower(task)
        hit == SelectSeq(TASK_SIGNALS,
                         LAMBDA item : AnyKeyword(task_lower, item[2]))
    IN  [i \in DOMAIN hit |-> hit[i][1]]

\* The tasks given to the router: "Fix auth", "Fast XSS test", "sort".
RouterTasks ==
    {<<"F", "i", "x", " ", "a", "u", "t", "h">>,
     <<"F", "a", "s", "t", " ", "X", "S", "S", " ", "t", "e", "s", "t">>,
     <<"s", "o", "r", "t">>}

\* self._extract_signals(task) for each task, computed once.
SignalsOf == [t \in RouterTasks |-> ExtractSignals(t)]

\* The names of the strategies that may be registered with a router.
StrategyRegistryNames ==
    {"adversarial", "evolutionary", "consensus", "verification_loop"}

\* The strategy names and outcome scores a caller may record.
RecordedStrategies == {"consensus", "adversarial"}
RecordedScores == {5, 10}

\* if set(signals) & set(entry_signals)
Overlaps(signals, entry) == Range(signals) \cap Range(entry.task_signals) # {}

\* The entries of the history that share a signal with `signals`.
Matching(history, signals) ==
    SelectSeq(history, LAMBDA entry : Overlaps(signals, entry))

\* The keys of `candidates`, in the order setdefault inserted them.
RECURSIVE CandidateNames(_)
CandidateNames(entries) ==
    IF entries = <<>> THEN <<>>
    ELSE LET rest == CandidateNames(SubSeq(entries, 1, Len(entries) - 1))
             last == entries[Len(entries)].strategy
         IN  IF last \in Range(rest) THEN rest ELSE Append(rest, last)

\* sum(candidates[s]) and len(candidates[s])
RECURSIVE ScoreSum(_, _)
ScoreSum(entries, s) ==
    IF entries = <<>> THEN 0
    ELSE (IF Head(entries).strategy = s THEN Head(entries).score ELSE 0)
         + ScoreSum(Tail(entries), s)
ScoreCount(entries, s) ==
    Cardinality({k \in DOMAIN entries : entries[k].strategy = s})

\* Python computes the average as sum(scores) / len(scores) in binary floating
\* point, adding from the left.  For scores in tenths the result is the double
\* nearest to the exact average or a neighbour of it; FloatOffset is the
\* distance from the nearest double, in half units in the last place, for
\* every sequence of up to four scores among 0.1, 0.4 and 0.7 where it is not
\* zero.  Sums of 0.5 and 1.0 are exact and their averages have offset 0.
FloatOffset(scores) ==
    CASE scores = <<1, 7>> -> -2
      [] scores = <<7, 1>> -> -2
      [] scores = <<1, 1, 1>> -> 2
      [] scores = <<1, 1, 4>> -> 2
      [] scores = <<1, 4, 1>> -> -2
      [] scores = <<1, 4, 7>> -> -2
      [] scores = <<1, 7, 4>> -> -2
      [] scores = <<4, 1, 1>> -> -2
      [] scores = <<4, 1, 7>> -> -2
      [] scores = <<4, 4, 4>> -> 2
      [] scores = <<4, 7, 1>> -> 2
      [] scores = <<7, 1, 4>> -> -2
      [] scores = <<7, 4, 1>> -> 2
      [] scores = <<7, 7, 7>> -> -2
      [] scores = <<1, 1, 1, 4>> -> 2
      [] scores = <<1, 1, 4, 1>> -> 2
      [] scores = <<1, 1, 7, 1>> -> -1
      [] scores = <<1, 1, 7, 4>> -> -2
      [] scores = <<1, 1, 7, 7>> -> -2
      [] scores = <<1, 4, 1, 7>> -> -2
      [] scores = <<1, 7, 1, 1>> -> -1
      [] scores = <<1, 7, 1, 4>> -> -2
      [] scores = <<1, 7, 1, 7>> -> -2
      [] scores = <<4, 1, 1, 7>> -> -2
      [] scores = <<4, 4, 4, 1>> -> 2
      [] scores = <<4, 4, 4, 7>> -> 2
      [] scores = <<4, 7, 1, 1>> -> 2
      [] scores = <<4, 7, 1, 7>> -> 2
      [] scores = <<4, 7, 7, 1>> -> 2
      [] scores = <<7, 1, 1, 1>> -> -1
      [] scores = <<7, 1, 1, 4>> -> -2
      [] scores = <<7, 1, 1, 7>> -> -2
      [] scores = <<7, 4, 1, 1>> -> 2
      [] scores = <<7, 4, 1, 7>> -> 2
      [] scores = <<7, 4, 7, 1>> -> 2
      [] scores = <<7, 7, 4, 4>> -> -2
      [] scores = <<7, 7, 7, 1>> -> -2
      [] scores = <<7, 7, 7, 4>> -> -2
      [] OTHER -> 0

\* The scores recorded for strategy s, in the order of the entries.
ScoresOf(entries, s) ==
    LET of == SelectSeq(entries, LAMBDA e : e.strategy = s)
    IN  [i \in DOMAIN of |-> of[i].score]

\* The averages compared as rational numbers.
HigherAverageExact(entries, a, b) ==
    ScoreSum(entries, a) * ScoreCount(entries, b)
        > ScoreSum(entries, b) * ScoreCount(entries, a)

\* average(a) > average(b) on the floats Python computes: exact averages that
\* differ are more than a rounding error apart; equal ones compare by their
\* rounding.
HigherAverage(entries, a, b) ==
    LET left == ScoreSum(entries, a) * ScoreCount(entries, b)
        right == ScoreSum(entries, b) * ScoreCount(entries, a)
    IN  \/ left > right
        \/ /\ left = right
           /\ FloatOffset(ScoresOf(entries, a))
                 > FloatOffset(ScoresOf(entries, b))

NoStrategy == ""

\* The strategy recorded last for a category of the task.
BestStrategyLatest(history, task) ==
    LET entries == Matching(history, SignalsOf[task])
    IN  IF entries = <<>> THEN NoStrategy
        ELSE entries[Len(entries)].strategy

\* RoutingHistory.best_strategy_for: None without signals, without history or
\* without a matching entry; else max(candidates, key=average), which keeps
\* the first of the keys that reach the maximum.
BestStrategyFor(history, task) ==
    LET signals == SignalsOf[task]
        entries == Matching(history, signals)
        names == CandidateNames(entries)
    IN  IF signals = <<>> \/ history = <<>> \/ entries = <<>> THEN NoStrategy
        ELSE names[CHOOSE i \in DOMAIN names :
                     /\ \A j \in DOMAIN names :
                            ~HigherAverage(entries, names[j], names[i])
                     /\ \A j \in 1..(i - 1) :
                            HigherAverage(entries, names[i], names[j])]

\* The learned strategy is never taken.
UseLearnedNever(learned, strategies) == FALSE

\* if learned and learned in self._strategies
UseLearned(learned, strategies) ==
    learned # NoStrategy /\ learned \in Range(strategies)

\* The categories are tried from the last declared to the first.
KeywordRoutedReversed(task, strategies) ==
    LET signals == SignalsOf[task]
        routed == SelectSeq(signals,
                            LAMBDA sig : DEFAULT_ROUTING(sig) \in Range(strategies))
    IN  IF routed = <<>> THEN NoStrategy
        ELSE DEFAULT_ROUTING(routed[Len(routed)])

\* The default of the first matching category, registered or not.
KeywordRoutedUnregistered(task, strategies) ==
    LET signals == SignalsOf[task]
    IN  IF signals = <<>> THEN NoStrategy ELSE DEFAULT_ROUTING(signals[1])

\* The keyword loop of select_strategy: the default of the first category, in
\* declared order, that has a keyword in the task and whose default is
\* registered; NoStrategy when the loop ends without returning.
KeywordRouted(task, strategies) ==
    LET signals == SignalsOf[task]
        routed == SelectSeq(signals,
                            LAMBDA sig : DEFAULT_ROUTING(sig) \in Range(strategies))
    IN  IF routed = <<>> THEN NoStrategy
        ELSE DEFAULT_ROUTING(routed[1])

Selected(name) == [outcome |-> "returned", strategy |-> name]
StopIteration == [outcome |-> "raised", strategy |-> "StopIteration"]

\* AdaptiveRouter.select_strategy
SelectStrategy(strategies, history, task) ==
    LET learned == BestStrategyFor(history, task)
        routed == KeywordRouted(task, strategies)
    IN  IF UseLearned(learned, strategies) THEN Selected(learned)
        ELSE IF routed # NoStrategy THEN Selected(routed)
        ELSE IF "consensus" \in Range(strategies) THEN Selected("consensus")
        ELSE IF strategies # <<>> THEN Selected(strategies[1])
        ELSE StopIteration

\* The routing-history document: json.dumps writes the list of entries as
\* text, json.loads reads it back.  A text is the sequence of its JSON tokens:
\* punctuation, strings and numbers; a score (in tenths) is written as the
\* decimal text of the float.
Punct(x) == <<"p", x>>
JStr(x) == <<"s", x>>
JNum(x) == <<"n", x>>

\* repr of the float score
NumberText(n) == CASE n = 5 -> "0.5" [] n = 10 -> "1.0"

\* float(text) of a JSON number
TextNumber(text) == CHOOSE n \in RecordedScores : NumberText(n) = text

\* One entry as JSON text.
DumpEntry(e) ==
    <<Punct("{"), JStr("task_signals"), Punct("[")>>
    \o [i \in DOMAIN e.task_signals |-> JStr(e.task_signals[i])]
    \o <<Punct("]"), JStr("strategy"), JStr(e.strategy),
         JStr("score"), JNum(NumberText(e.score)), Punct("}")>>

RECURSIVE DumpEntries(_)
DumpEntries(history) ==
    IF history = <<>> THEN <<>>
    ELSE DumpEntry(Head(history)) \o DumpEntries(Tail(history))

\* The document holds the latest entry only.
DumpsLatestOnly(history) ==
    <<Punct("[")>>
    \o (IF history = <<>> THEN <<>> ELSE DumpEntry(history[Len(history)]))
    \o <<Punct("]")>>

\* json.dumps(self._history, indent=2)
Dumps(history) == <<Punct("[")>> \o DumpEntries(history) \o <<Punct("]")>>

\* The tokens form one entry object.
IsEntryText(t) ==
    /\ Len(t) >= 9
    /\ t[1] = Punct("{") /\ t[2] = JStr("task_signals") /\ t[3] = Punct("[")
    /\ \A i \in 4..(Len(t) - 6) : t[i][1] = "s"
    /\ t[Len(t) - 5] = Punct("]")
    /\ t[Len(t) - 4] = JStr("strategy") /\ t[Len(t) - 3][1] = "s"
    /\ t[Len(t) - 2] = JStr("score") /\ t[Len(t) - 1][1] = "n"
    /\ t[Len(t) - 1][2] \in {NumberText(n) : n \in RecordedScores}
    /\ t[Len(t)] = Punct("}")

\* The entry an entry object stands for.
LoadEntry(t) ==
    [task_signals |-> [i \in 1..(Len(t) - 9) |-> t[i + 3][2]],
     strategy |-> t[Len(t) - 3][2],
     score |-> TextNumber(t[Len(t) - 1][2])]

\* Where the first object of the text ends; 0 if it does not.
FirstClose(text) ==
    IF \E i \in DOMAIN text : text[i] = Punct("}")
    THEN CHOOSE i \in DOMAIN text :
            /\ text[i] = Punct("}")
            /\ \A j \in 1..(i - 1) : text[j] # Punct("}")
    ELSE 0

\* The objects between the brackets of the document, parsed one by one.
RECURSIVE LoadEntries(_)
LoadEntries(text) ==
    IF text = <<>> THEN [ok |-> TRUE, value |-> <<>>]
    ELSE LET close == FirstClose(text)
         IN  IF close = 0 \/ ~IsEntryText(SubSeq(text, 1, close))
             THEN [ok |-> FALSE, value |-> <<>>]
             ELSE LET rest == LoadEntries(SubSeq(text, close + 1, Len(text)))
                  IN  [ok |-> rest.ok,
                       value |-> <<LoadEntry(SubSeq(text, 1, close))>>
                                 \o rest.value]

\* json.loads(text) of a document written by _save, whole or cut short: the
\* list, or ok = FALSE for JSONDecodeError.
Loads(text) ==
    IF Len(text) >= 2 /\ text[1] = Punct("[") /\ text[Len(text)] = Punct("]")
    THEN LoadEntries(SubSeq(text, 2, Len(text) - 1))
    ELSE [ok |-> FALSE, value |-> <<>>]

\* The file at self._path: missing, or holding a text.
NoFile == [exists |-> FALSE, text |-> <<>>]
FileWith(text) == [exists |-> TRUE, text |-> text]

\* The object starts empty whatever the file holds.
LoadIgnoringFile(file) == <<>>

\* RoutingHistory._load: the entries of the file; none if the file is missing
\* or its text does not parse.
Load(file) ==
    IF file.exists /\ Loads(file.text).ok THEN Loads(file.text).value ELSE <<>>

\* The components the router leaves alone.
rtrRest ==
    <<adv, evo, ver, mesh, eng, conf, fit, pipe, cons, hist,
      conc, rank, att, ser, store, twice, cross, best, route, sync>>

\* AdaptiveRouter(): no strategy registered, the history file absent.
\* `selected` holds the latest select_strategy call and its result, `file`
\* the history file.
RtrInit ==
    rtr = [strategies |-> <<>>, history |-> Load(NoFile), file |-> NoFile,
           selected |-> <<>>]

\* AdaptiveRouter.register_strategy: self._strategies[strategy.name] = strategy
\* (a name already present keeps its position).
RtrRegister ==
    /\ UNCHANGED rtrRest
    /\ Len(rtr.strategies) < MaxStrategies
    /\ \E name \in StrategyRegistryNames :
        rtr' = [rtr EXCEPT
                  !.strategies = IF name \in Range(@) THEN @ ELSE Append(@, name),
                  !.selected = <<>>]

\* RoutingHistory.record: the entry is appended and the whole list saved.
RtrRecord ==
    /\ UNCHANGED rtrRest
    /\ Len(rtr.history) < MaxHistory
    /\ \E task \in RouterTasks, strategy \in RecordedStrategies,
          score \in RecordedScores :
        LET history == Append(rtr.history,
                              [task_signals |-> SignalsOf[task],
                               strategy |-> strategy,
                               score |-> score])
        IN  rtr' = [rtr EXCEPT !.history = history,
                               !.file = FileWith(Dumps(history)),
                               !.selected = <<>>]

\* AdaptiveRouter.select_strategy(task)
RtrSelect ==
    /\ UNCHANGED rtrRest
    /\ \E task \in RouterTasks :
        rtr' = [rtr EXCEPT
                  !.selected = <<[task |-> task,
                                  result |-> SelectStrategy(rtr.strategies,
                                                            rtr.history, task)]>>]

NextRouter ==
    \/ RtrRegister
    \/ RtrRecord
    \/ RtrSelect

InitRouter ==
    /\ sync = Idle
    /\ route = Idle
    /\ best = Idle
    /\ cross = Idle
    /\ RtrInit
    /\ adv = Idle /\ evo = Idle /\ ver = Idle /\ mesh = Idle
    /\ eng = Idle /\ conf = Idle /\ fit = Idle
    /\ pipe = Idle /\ cons = Idle
    /\ hist = Idle
    /\ conc = Idle
    /\ rank = Idle
    /\ att = Idle
    /\ ser = Idle
    /\ store = Idle
    /\ twice = Idle

SpecRouter == InitRouter /\ [][NextRouter]_vars

\* The history holds a recorded outcome for a category the task matches.
HasRecordedOutcome(history, task) ==
    \E k \in DOMAIN history : Overlaps(SignalsOf[task], history[k])

\* `name` is a strategy recorded for a category of the task whose average
\* recorded score no other such strategy exceeds.
RankedBest(history, task, name) ==
    LET entries == Matching(history, SignalsOf[task])
    IN  /\ \E k \in DOMAIN entries : entries[k].strategy = name
        /\ \A k \in DOMAIN entries :
               ~HigherAverage(entries, entries[k].strategy, name)

\* C9 as stated: whenever the history holds a recorded outcome for a category
\* the task matches, select_strategy returns the strategy history ranks best.
C9_LearnedAlwaysWins ==
    \A k \in DOMAIN rtr.selected :
        LET call == rtr.selected[k]
        IN  HasRecordedOutcome(rtr.history, call.task) =>
                /\ call.result.outcome = "returned"
                /\ RankedBest(rtr.history, call.task, call.result.strategy)

\* C9, amended: whenever the history holds a recorded outcome for a category
\* the task matches, select_strategy returns the strategy best_strategy_for
\* ranks best, overriding the keyword default, provided that strategy is
\* registered with the router; when it is not registered the history is
\* ignored and the result is the one an empty history gives.
C9_LearnedWinsIfRegistered ==
    \A k \in DOMAIN rtr.selected :
        LET call == rtr.selected[k]
            learned == BestStrategyFor(rtr.history, call.task)
        IN  HasRecordedOutcome(rtr.history, call.task) =>
                /\ RankedBest(rtr.history, call.task, learned)
                /\ learned \in Range(rtr.strategies)
                       => call.result = Selected(learned)
                /\ learned \notin Range(rtr.strategies)
                       => call.result
                              = SelectStrategy(rtr.strategies, <<>>, call.task)

\* select_strategy("Fix auth") on a router with adversarial and consensus
\* registered and a recorded consensus outcome for a security task returned
\* consensus, not the keyword default adversarial.
C9_Witness ==
    /\ rtr.selected # <<>>
    /\ rtr.selected[1].task = <<"F", "i", "x", " ", "a", "u", "t", "h">>
    /\ {"adversarial", "consensus"} \subseteq Range(rtr.strategies)
    /\ rtr.history # <<>>
    /\ \A k \in DOMAIN rtr.history :
           /\ rtr.history[k].strategy = "consensus"
           /\ "security" \in Range(rtr.history[k].task_signals)
    /\ rtr.selected[1].result = Selected("consensus")

\* The categories in the order TASK_SIGNALS declares them.
CategoryOrder == <<"security", "performance", "simple", "complex", "testing">>

\* Category number i has a keyword in the task.
CategoryMatches(task, i) == CategoryOrder[i] \in Range(SignalsOf[task])

\* C10 as stated: when learned history does not decide, the first category,
\* in the order security, performance, simple, complex, testing, whose
\* keywords match the task decides: its default strategy is returned.
C10_FirstMatchWins ==
    \A k \in DOMAIN rtr.selected :
        LET call == rtr.selected[k]
        IN  \A i \in DOMAIN CategoryOrder :
                /\ BestStrategyFor(rtr.history, call.task) = NoStrategy
                /\ CategoryMatches(call.task, i)
                /\ \A j \in 1..(i - 1) : ~CategoryMatches(call.task, j)
                => call.result = Selected(DEFAULT_ROUTING(CategoryOrder[i]))

\* Category number i matches the task and its default strategy is registered.
CategoryRoutes(task, strategies, i) ==
    /\ CategoryMatches(task, i)
    /\ DEFAULT_ROUTING(CategoryOrder[i]) \in Range(strategies)

\* C10, amended: when learned history does not decide (it names no strategy
\* or one that is not registered), the categories are tested in the order
\* security, performance, simple, complex, testing, and the first category
\* whose keywords match the task and whose default strategy is registered
\* wins; matching categories with an unregistered default are passed over and
\* categories after the winner are not consulted.
C10_FirstRegisteredMatchWins ==
    \A k \in DOMAIN rtr.selected :
        LET call == rtr.selected[k]
        IN  \A i \in DOMAIN CategoryOrder :
                /\ ~UseLearned(BestStrategyFor(rtr.history, call.task),
                               rtr.strategies)
                /\ CategoryRoutes(call.task, rtr.strategies, i)
                /\ \A j \in 1..(i - 1) :
                       ~CategoryRoutes(call.task, rtr.strategies, j)
                => call.result = Selected(DEFAULT_ROUTING(CategoryOrder[i]))

\* select_strategy("Fast XSS test") with nothing recorded, on a router with
\* verification_loop and evolutionary registered, returned evolutionary: the
\* security category matched first but adversarial is not registered, and the
\* testing category, which also matches and is registered, did not decide.
C10_Witness ==
    /\ rtr.selected # <<>>
    /\ rtr.selected[1].task = <<"F", "a", "s", "t", " ", "X", "S", "S", " ", "t", "e", "s", "t">>
    /\ rtr.history = <<>>
    /\ rtr.strategies = <<"verification_loop", "evolutionary">>
    /\ rtr.selected[1].result = Selected("evolutionary")

\* Neither learned history nor a keyword category yields a strategy.
NothingRoutes(strategies, history, task) ==
    /\ ~UseLearned(BestStrategyFor(history, task), strategies)
    /\ \A i \in DOMAIN CategoryOrder : ~CategoryRoutes(task, strategies, i)

\* C11 as stated: when neither learned history nor any keyword category
\* yields a strategy, select_strategy returns 'consensus' if registered,
\* otherwise the first registered strategy; for every task and every registry
\* the value returned is one of the registered strategies.
C11_AlwaysReturnsRegistered ==
    \A k \in DOMAIN rtr.selected :
        LET call == rtr.selected[k]
        IN  /\ call.result.outcome = "returned"
            /\ call.result.strategy \in Range(rtr.strategies)
            /\ NothingRoutes(rtr.strategies, rtr.history, call.task)
                   => call.result.strategy
                          = IF "consensus" \in Range(rtr.strategies)
                            THEN "consensus" ELSE rtr.strategies[1]

\* C11, amended: for every task and every registry with at least one
\* strategy, select_strategy returns one of the registered strategies, and
\* when neither learned history nor any keyword category yields a strategy it
\* is 'consensus' if registered, otherwise the first registered strategy;
\* with nothing registered select_strategy raises StopIteration.
C11_ReturnsRegisteredUnlessEmpty ==
    \A k \in DOMAIN rtr.selected :
        LET call == rtr.selected[k]
        IN  /\ rtr.strategies # <<>> =>
                /\ call.result.outcome = "returned"
                /\ call.result.strategy \in Range(rtr.strategies)
                /\ NothingRoutes(rtr.strategies, rtr.history, call.task)
                       => call.result.strategy
                              = IF "consensus" \in Range(rtr.strategies)
                                THEN "consensus" ELSE rtr.strategies[1]
            /\ rtr.strategies = <<>> => call.result = StopIteration

\* select_strategy("sort") on a router with evolutionary, then adversarial
\* registered and an outcome recorded returned evolutionary, the first
\* registered: no category matches and consensus is not registered.
C11_Witness ==
    /\ rtr.selected # <<>>
    /\ rtr.selected[1].task = <<"s", "o", "r", "t">>
    /\ rtr.strategies = <<"evolutionary", "adversarial">>
    /\ rtr.history # <<>>
    /\ rtr.selected[1].result = Selected("evolutionary")

(***************************************************************************)
(* Pipeline.execute                                                         *)
(*                                                                          *)
(* Texts are sequences of tokens, prompts are the f-strings that embed      *)
(* them, so that "the prompt embeds the output" is a substring test.  Each  *)
(* await is two steps: the call is issued, then it returns or raises.       *)
(***************************************************************************)

\* Replies an agent may return: the empty string, a one-token and a two-token
\* text.
PipeTexts == {<<>>, <<"a">>, <<"a", "b">>}

\* The task given to execute.
PipeTask == <<"t">>

PipeRequired == {"claude", "codex", "dispatch"}

\* architect_prompt
ArchitectPrompt(task) ==
    <<"Design the architecture", "Task:">> \o task \o <<"Include:">>

\* A build prompt without the blueprint.
BuildPromptBare(architect_output) ==
    <<"Implement production-quality code", "Blueprint:">>

\* build_prompt
BuildPrompt(architect_output) ==
    <<"Implement production-quality code", "Blueprint:">> \o architect_output

\* specialist_prompt
SpecialistPrompt(task, architect_output, build_output) ==
    <<"Review this implementation", "Original task:">> \o task
    \o <<"Architecture:">> \o architect_output
    \o <<"Implementation:">> \o build_output
    \o <<"List issues">>

\* dispatch_input: the specialist section is added `if specialist_output`.
DispatchInput(task, architect_output, build_output, specialist_output) ==
    <<"Final verification", "Task:">> \o task
    \o <<"Architecture:">> \o architect_output
    \o <<"Implementation:">> \o build_output
    \o (IF specialist_output # <<>>
        THEN <<"Specialist review:">> \o specialist_output ELSE <<>>)
    \o <<"Provide final verdict">>

\* "stages_run": 4 if specialist_output else 3
StagesRun(p) == IF p.specialist_output # <<>> THEN 4 ELSE 3

\* The components a Pipeline run leaves alone.
pipeRest ==
    <<adv, evo, ver, mesh, eng, conf, fit, rtr, cons, hist,
      conc, rank, att, ser, store, twice, cross, best, route, sync>>

\* `events` logs each call issued (role, prompt) and each return (role, text).
\* Pipeline(include_specialist=inc).execute entered with the agents `ag`.
PipeEntered(inc, ag) ==
    [pc |-> "lookup", include_specialist |-> inc, agents |-> ag,
     waiting |-> FALSE,
     architect_output |-> <<>>, build_output |-> <<>>,
     specialist_output |-> <<>>,
     events |-> <<>>, calls |-> <<>>, ret |-> Idle]

PipeInit ==
    \E inc \in BOOLEAN, ag \in AgentDicts :
        pipe = PipeEntered(inc, ag)

\* agents["claude"], agents["codex"], agents["dispatch"]
PipeLookup ==
    /\ UNCHANGED pipeRest
    /\ pipe.pc = "lookup"
    /\ pipe' = [pipe EXCEPT !.pc = IF PipeRequired \subseteq Range(pipe.agents)
                                   THEN "architect" ELSE "raised"]

\* role.execute(prompt) is entered.
PipeIssue(p, role, prompt) ==
    [p EXCEPT !.waiting = TRUE,
              !.calls = Append(@, role),
              !.events = Append(@, [kind |-> "call", role |-> role,
                                    text |-> prompt])]

\* role.execute(prompt) returns `out`.
PipeReturned(p, role, out) ==
    [p EXCEPT !.waiting = FALSE,
              !.events = Append(@, [kind |-> "return", role |-> role,
                                    text |-> out])]

\* claude.execute(architect_prompt) is awaited.
PipeArchitectCall ==
    /\ UNCHANGED pipeRest
    /\ pipe.pc = "architect" /\ ~pipe.waiting
    /\ pipe' = PipeIssue(pipe, "claude", ArchitectPrompt(PipeTask))

\* architect_output = ...
PipeArchitectReturn ==
    /\ UNCHANGED pipeRest
    /\ pipe.pc = "architect" /\ pipe.waiting
    /\ \E out \in PipeTexts :
        pipe' = [PipeReturned(pipe, "claude", out) EXCEPT
                   !.architect_output = out, !.pc = "build"]

\* codex.execute(build_prompt) is awaited.
PipeBuildCall ==
    /\ UNCHANGED pipeRest
    /\ pipe.pc = "build" /\ ~pipe.waiting
    /\ pipe' = PipeIssue(pipe, "codex", BuildPrompt(pipe.architect_output))

\* build_output = ...; specialist_output = "";
\* if self.include_specialist and "ollama" in agents
PipeBuildReturn ==
    /\ UNCHANGED pipeRest
    /\ pipe.pc = "build" /\ pipe.waiting
    /\ \E out \in PipeTexts :
        pipe' = [PipeReturned(pipe, "codex", out) EXCEPT
                   !.build_output = out,
                   !.specialist_output = <<>>,
                   !.pc = IF pipe.include_specialist
                             /\ "ollama" \in Range(pipe.agents)
                          THEN "specialist" ELSE "dispatch"]

\* agents["ollama"].execute(specialist_prompt) is awaited.
PipeSpecialistCall ==
    /\ UNCHANGED pipeRest
    /\ pipe.pc = "specialist" /\ ~pipe.waiting
    /\ pipe' = PipeIssue(pipe, "ollama",
                         SpecialistPrompt(PipeTask, pipe.architect_output,
                                          pipe.build_output))

\* specialist_output = ...
PipeSpecialistReturn ==
    /\ UNCHANGED pipeRest
    /\ pipe.pc = "specialist" /\ pipe.waiting
    /\ \E out \in PipeTexts :
        pipe' = [PipeReturned(pipe, "ollama", out) EXCEPT
                   !.specialist_output = out, !.pc = "dispatch"]

\* dispatch.execute(dispatch_input) is awaited.
PipeDispatchCall ==
    /\ UNCHANGED pipeRest
    /\ pipe.pc = "dispatch" /\ ~pipe.waiting
    /\ pipe' = PipeIssue(pipe, "dispatch",
                         DispatchInput(PipeTask, pipe.architect_output,
                                       pipe.build_output,
                                       pipe.specialist_output))

\* dispatch_output = ...; return {...}
PipeDispatchReturn ==
    /\ UNCHANGED pipeRest
    /\ pipe.pc = "dispatch" /\ pipe.waiting
    /\ \E out \in PipeTexts :
        pipe' = [PipeReturned(pipe, "dispatch", out) EXCEPT
                   !.pc = "done",
                   !.ret = [architect_output |-> pipe.architect_output,
                            build_output |-> pipe.build_output,
                            specialist_output |-> pipe.specialist_output,
                            dispatch_output |-> out,
                            stages_run |-> StagesRun(pipe),
                            strategy |-> "pipeline"]]

\* The awaited agent call raises: execute has no try/except, the error
\* leaves it.
PipeAgentRaises ==
    /\ UNCHANGED pipeRest
    /\ pipe.pc \in {"architect", "build", "specialist", "dispatch"}
    /\ pipe.waiting
    /\ pipe' = [pipe EXCEPT !.waiting = FALSE, !.pc = "raised"]

NextPipe ==
    \/ PipeLookup
    \/ PipeArchitectCall
    \/ PipeArchitectReturn
    \/ PipeBuildCall
    \/ PipeBuildReturn
    \/ PipeSpecialistCall
    \/ PipeSpecialistReturn
    \/ PipeDispatchCall
    \/ PipeDispatchReturn
    \/ PipeAgentRaises

InitPipe ==
    /\ sync = Idle
    /\ route = Idle
    /\ best = Idle
    /\ cross = Idle
    /\ PipeInit
    /\ adv = Idle /\ evo = Idle /\ ver = Idle /\ mesh = Idle
    /\ eng = Idle /\ conf = Idle /\ fit = Idle /\ rtr = Idle
    /\ cons = Idle
    /\ hist = Idle
    /\ conc = Idle
    /\ rank = Idle
    /\ att = Idle
    /\ ser = Idle
    /\ store = Idle
    /\ twice = Idle

SpecPipe == InitPipe /\ [][NextPipe]_vars

\* C12: a Pipeline run returns stages_run == 4 exactly when the specialist
\* stage ran (the 'ollama' agent was invoked) and stages_run == 3 exactly when
\* it did not, whatever text the specialist returned.
C12_StagesRunCountsSpecialist ==
    pipe.pc = "done" =>
        /\ pipe.ret.stages_run = 4 <=> CallsTo(pipe.calls, "ollama") > 0
        /\ pipe.ret.stages_run = 3 <=> CallsTo(pipe.calls, "ollama") = 0

\* The roles a Pipeline run calls, in order, given its flag and agent set.
PipeOrder(p) ==
    <<"claude", "codex">>
    \o (IF p.include_specialist /\ "ollama" \in Range(p.agents)
        THEN <<"ollama">> ELSE <<>>)
    \o <<"dispatch">>

\* C13: Pipeline.execute calls architect ('claude'), builder ('codex'),
\* specialist ('ollama'), dispatch in that order, each call starting only
\* after the previous one returned and with the previous stage's full output
\* embedded in its prompt; the specialist is called if and only if
\* include_specialist is true and 'ollama' is in the agent set.
C13_SequentialHandoff ==
    LET ev == pipe.events
        order == PipeOrder(pipe)
    IN  /\ Len(pipe.calls) <= Len(order)
        /\ \A k \in DOMAIN pipe.calls : pipe.calls[k] = order[k]
        /\ \A i \in DOMAIN ev :
               /\ ev[i].kind = (IF i % 2 = 1 THEN "call" ELSE "return")
               /\ ev[i].role = order[(i + 1) \div 2]
               /\ (ev[i].kind = "call" /\ i > 1)
                      => Contains(ev[i].text, ev[i - 1].text)
        /\ pipe.pc = "done" =>
               /\ pipe.calls = order
               /\ CallsTo(pipe.calls, "ollama") > 0
                      <=> (pipe.include_specialist
                           /\ "ollama" \in Range(pipe.agents))

\* A run through all four stages that returned, the architect and the
\* specialist having returned a two-token text and the builder a one-token
\* text.
C13_Witness ==
    /\ pipe.pc = "done"
    /\ pipe.calls = <<"claude", "codex", "ollama", "dispatch">>
    /\ pipe.architect_output = <<"a", "b">>
    /\ pipe.build_output = <<"a">>
    /\ pipe.specialist_output = <<"a", "b">>
    /\ Len(pipe.events) = 8

\* The key is present in the strategy output with a string value.
HasString(result, key) ==
    \E i \in DOMAIN result : result[i][1] = key /\ result[i][2].t = "str"

\* The string stored under a key that HasString.
StringAt(result, key) ==
    result[CHOOSE i \in DOMAIN result : result[i][1] = key][2].v

\* C14: DualEngine.run sets PipelineResult.code to the strategy output's
\* dispatch_output if that key is present with a string value, otherwise to
\* build_output if that key is present with a string value, otherwise to the
\* empty string.
C14_CodeFromDispatchThenBuild ==
    \A k \in DOMAIN eng.runs :
        LET result == eng.runs[k].result
            code == eng.runs[k].out.code
        IN  code = IF HasString(result, Key("dispatch"))
                   THEN StringAt(result, Key("dispatch"))
                   ELSE IF HasString(result, Key("build"))
                        THEN StringAt(result, Key("build"))
                        ELSE ""

\* A run whose strategy output holds dispatch_output = None before
\* build_output = "b": the code is "b".
C14_Witness ==
    /\ eng.runs # <<>>
    /\ Len(eng.runs[1].result) = 2
    /\ eng.runs[1].result[1] = <<Key("dispatch"), None>>
    /\ eng.runs[1].result[2] = <<Key("build"), Str("b")>>
    /\ eng.runs[1].out.code = "b"

\* The items of the strategy output whose key ends in '_output' and whose
\* value is a string, in the mapping's order.
OutputItems(result) ==
    SelectSeq(result, LAMBDA item :
        /\ item[1] # <<>>
        /\ item[1][Len(item[1])] = OUTPUT
        /\ item[2].t = "str")

\* C15: DualEngine.run creates exactly one AgentOutput for each key of the
\* strategy output that ends in '_output' and has a string value, none for
\* any other key, in the mapping's key order; agent_name is the key without
\* the '_output' suffix and the stage comes from the name-to-Stage table, a
\* name not in the table giving Stage.DISPATCH.
C15_OneOutputPerOutputKey ==
    \A k \in DOMAIN eng.runs :
        LET items == OutputItems(eng.runs[k].result)
            outs == eng.runs[k].out.stage_outputs
        IN  /\ Len(outs) = Len(items)
            /\ \A i \in DOMAIN items :
                   LET name == SubSeq(items[i][1], 1, Len(items[i][1]) - 1)
                   IN  /\ outs[i].agent_name = name
                       /\ outs[i].content = items[i][2].v
                       /\ outs[i].stage = StageOf(name)

(***************************************************************************)
(* Consensus.execute                                                        *)
(*                                                                          *)
(* agent.execute(prompt) on an `async def` only creates the coroutine; its  *)
(* body runs once gather has scheduled it.  `tasks` are the coroutines      *)
(* created, `calls` the agent calls whose body was started.                 *)
(***************************************************************************)

\* The components a Consensus run leaves alone.
consRest ==
    <<adv, evo, ver, mesh, eng, conf, fit, rtr, pipe, hist,
      conc, rank, att, ser, store, twice, cross, best, route, sync>>

\* Consensus().execute entered with the agents `ag`.
ConsEntered(ag) ==
    [pc |-> "claude_task", agents |-> ag, tasks |-> <<>>,
     completions |-> <<>>, waiting |-> FALSE,
     claude_output |-> "", codex_output |-> "",
     calls |-> <<>>, ret |-> Idle]

ConsInit ==
    \E ag \in AgentDicts :
        cons = ConsEntered(ag)

\* claude_task = agents["claude"].execute(prompt): KeyError without the role.
ConsClaudeTask ==
    /\ UNCHANGED consRest
    /\ cons.pc = "claude_task"
    /\ cons' = IF "claude" \in Range(cons.agents)
               THEN [cons EXCEPT !.tasks = <<"claude">>, !.pc = "codex_task"]
               ELSE [cons EXCEPT !.pc = "raised"]

\* codex_task = agents["codex"].execute(prompt): KeyError without the role,
\* and then claude_task is never awaited; else asyncio.gather(claude_task,
\* codex_task) schedules both coroutines.
ConsCodexTask ==
    /\ UNCHANGED consRest
    /\ cons.pc = "codex_task"
    /\ cons' = IF "codex" \in Range(cons.agents)
               THEN [cons EXCEPT !.tasks = Append(@, "codex"),
                                 !.calls = Append(cons.tasks, "codex"),
                                 !.pc = "gather"]
               ELSE [cons EXCEPT !.pc = "raised"]

\* One of the two concurrent calls returns, in either order.
ConsComplete ==
    /\ UNCHANGED consRest
    /\ cons.pc = "gather"
    /\ \E name \in InFlight(cons), out \in Texts :
        cons' = [cons EXCEPT !.completions = Append(@, <<name, out>>)]

\* One of the two concurrent calls raises: gather re-raises it.
ConsTaskRaises ==
    /\ UNCHANGED consRest
    /\ cons.pc = "gather"
    /\ InFlight(cons) # {}
    /\ cons' = [cons EXCEPT !.pc = "raised"]

\* claude_output, codex_output = await asyncio.gather(...), once both are done.
ConsJoin ==
    /\ UNCHANGED consRest
    /\ cons.pc = "gather"
    /\ InFlight(cons) = {}
    /\ LET gathered == Gather(cons.tasks, cons.completions)
       IN  cons' = [cons EXCEPT !.claude_output = gathered[1],
                                !.codex_output = gathered[2],
                                !.pc = "dispatch"]

\* agents["dispatch"].execute(dispatch_prompt) is awaited: KeyError without
\* the role.
ConsDispatchCall ==
    /\ UNCHANGED consRest
    /\ cons.pc = "dispatch" /\ ~cons.waiting
    /\ cons' = IF "dispatch" \in Range(cons.agents)
               THEN [cons EXCEPT !.calls = Append(@, "dispatch"),
                                 !.waiting = TRUE]
               ELSE [cons EXCEPT !.pc = "raised"]

\* dispatch_output = ...; return {...}
ConsDispatchReturn ==
    /\ UNCHANGED consRest
    /\ cons.pc = "dispatch" /\ cons.waiting
    /\ \E out \in Texts :
        cons' = [cons EXCEPT
                   !.waiting = FALSE,
                   !.pc = "done",
                   !.ret = [claude_output |-> cons.claude_output,
                            codex_output |-> cons.codex_output,
                            dispatch_output |-> out,
                            strategy |-> "consensus"]]

\* The dispatch call raises: the error leaves execute.
ConsDispatchRaises ==
    /\ UNCHANGED consRest
    /\ cons.pc = "dispatch" /\ cons.waiting
    /\ cons' = [cons EXCEPT !.waiting = FALSE, !.pc = "raised"]

NextCons ==
    \/ ConsClaudeTask
    \/ ConsCodexTask
    \/ ConsComplete
    \/ ConsTaskRaises
    \/ ConsJoin
    \/ ConsDispatchCall
    \/ ConsDispatchReturn
    \/ ConsDispatchRaises

InitCons ==
    /\ sync = Idle
    /\ route = Idle
    /\ best = Idle
    /\ cross = Idle
    /\ ConsInit
    /\ adv = Idle /\ evo = Idle /\ ver = Idle /\ mesh = Idle
    /\ eng = Idle /\ conf = Idle /\ fit = Idle /\ rtr = Idle
    /\ pipe = Idle
    /\ hist = Idle
    /\ conc = Idle
    /\ rank = Idle
    /\ att = Idle
    /\ ser = Idle
    /\ store = Idle
    /\ twice = Idle

SpecCons == InitCons /\ [][NextCons]_vars

(***************************************************************************)
(* DualEngine.run over one strategy                                         *)
(*                                                                          *)
(* run awaits strategy.execute(task, self._agents, context) and normalises  *)
(* what it returns.  One of the six strategies runs, on the engine's        *)
(* agents; the others are off.                                              *)
(***************************************************************************)

\* A strategy that is not the one run.
Off == [pc |-> "off", agents |-> <<>>, calls |-> <<>>]

Num(n) == [t |-> "int", v |-> n]
List(l) == [t |-> "list", v |-> l]

\* The mapping each execute returns, as the items of the dict in the order
\* the return statement lists them.
AdvResult(ret) ==
    <<<<Key("build"), Str(ret.build_output)>>,
      <<Key("attack"), Str(ret.attack_output)>>,
      <<Key("fuzz"), Str(ret.fuzz_output)>>,
      <<Key("dispatch"), Str(ret.dispatch_output)>>,
      <<<<"rounds">>, Num(ret.rounds)>>,
      <<<<"total_attacks">>, Num(ret.total_attacks)>>,
      <<<<"strategy">>, Str(ret.strategy)>>>>

EvoResult(ret) ==
    <<<<<<"candidates">>, List(ret.candidates)>>,
      <<<<"generations">>, Num(ret.generations)>>,
      <<<<"population">>, Num(ret.population)>>,
      <<Key("dispatch"), Str(ret.dispatch_output)>>,
      <<<<"total_candidates_evaluated">>, Num(ret.total_candidates_evaluated)>>,
      <<<<"strategy">>, Str(ret.strategy)>>>>

VerResult(ret) ==
    <<<<Key("code"), Str(ret.code_output)>>,
      <<Key("test"), Str(ret.test_output)>>,
      <<Key("dispatch"), Str(ret.dispatch_output)>>,
      <<<<"iterations">>, Num(ret.iterations)>>,
      <<<<"code_versions">>, Num(ret.code_versions)>>,
      <<<<"test_versions">>, Num(ret.test_versions)>>,
      <<<<"strategy">>, Str(ret.strategy)>>>>

MeshResult(ret) ==
    [i \in DOMAIN ret.outputs |-> <<ret.outputs[i][1], Str(ret.outputs[i][2])>>]
    \o <<<<Key("dispatch"), Str(ret.dispatch_output)>>,
         <<<<"agents_consulted">>, Num(ret.agents_consulted)>>,
         <<<<"strategy">>, Str(ret.strategy)>>>>

PipeResult(ret) ==
    <<<<Key("architect"), Str(ret.architect_output)>>,
      <<Key("build"), Str(ret.build_output)>>,
      <<Key("specialist"), Str(ret.specialist_output)>>,
      <<Key("dispatch"), Str(ret.dispatch_output)>>,
      <<<<"stages_run">>, Num(ret.stages_run)>>,
      <<<<"strategy">>, Str(ret.strategy)>>>>

ConsResult(ret) ==
    <<<<Key("claude"), Str(ret.claude_output)>>,
      <<Key("codex"), Str(ret.codex_output)>>,
      <<Key("dispatch"), Str(ret.dispatch_output)>>,
      <<<<"strategy">>, Str(ret.strategy)>>>>

\* The strategy components, and the one that runs.
Strategies == <<adv, evo, ver, mesh, pipe, cons>>
Running == Strategies[CHOOSE k \in DOMAIN Strategies : Strategies[k].pc # "off"]

\* What the awaited execute returned.
ExecuteResult ==
    CASE adv.pc = "done" -> AdvResult(adv.ret)
      [] evo.pc = "done" -> EvoResult(evo.ret)
      [] ver.pc = "done" -> VerResult(ver.ret)
      [] mesh.pc = "done" -> MeshResult(mesh.ret)
      [] pipe.pc = "done" -> PipeResult(pipe.ret)
      [] cons.pc = "done" -> ConsResult(cons.ret)

\* run returns a PipelineResult although execute raised.
AwaitSwallowing(pc) == "returned"

\* `result = await strategy.execute(...)` in run, which has no try/except:
\* an exception of execute leaves run, a result lets it go on.
Await(pc) == IF pc = "raised" THEN "raised" ELSE "returned"

\* The engine awaiting the strategy it was given, on the agents registered.
EngAwaiting(agents) == [pc |-> "await", agents |-> agents, runs |-> <<>>]

\* execute returned: run builds the PipelineResult and returns it.
EngStrategyReturns ==
    /\ UNCHANGED engRest
    /\ eng.pc = "await"
    /\ Running.pc = "done"
    /\ LET result == ExecuteResult
       IN  eng' = [eng EXCEPT
                     !.pc = Await(Running.pc),
                     !.runs = <<[result |-> result,
                                 out |-> PipelineResult(eng.agents, result,
                                                        result[Len(result)][2].v)]>>]

\* execute raised: the exception leaves run at the await.
EngStrategyRaises ==
    /\ UNCHANGED engRest
    /\ eng.pc = "await"
    /\ Running.pc = "raised"
    /\ eng' = [eng EXCEPT
                 !.pc = Await(Running.pc),
                 !.runs = IF Await(Running.pc) = "raised" THEN <<>>
                          ELSE <<[result |-> <<>>,
                                  out |-> PipelineResult(eng.agents, <<>>, "")]>>]

NextStrategies ==
    \/ NextAdv
    \/ NextEvo
    \/ NextVer
    \/ NextMesh
    \/ NextPipe
    \/ NextCons
    \/ EngStrategyReturns
    \/ EngStrategyRaises

InitStrategies ==
    /\ sync = Idle
    /\ route = Idle
    /\ best = Idle
    /\ cross = Idle
    /\ conf = Idle /\ fit = Idle /\ rtr = Idle /\ hist = Idle
    /\ \/ AdvInit /\ eng = EngAwaiting(adv.agents)
          /\ evo = Off /\ ver = Off /\ mesh = Off /\ pipe = Off /\ cons = Off
       \/ EvoInit /\ eng = EngAwaiting(evo.agents)
          /\ adv = Off /\ ver = Off /\ mesh = Off /\ pipe = Off /\ cons = Off
       \/ VerInit /\ eng = EngAwaiting(ver.agents)
          /\ adv = Off /\ evo = Off /\ mesh = Off /\ pipe = Off /\ cons = Off
       \/ MeshInit /\ eng = EngAwaiting(mesh.agents)
          /\ adv = Off /\ evo = Off /\ ver = Off /\ pipe = Off /\ cons = Off
       \/ PipeInit /\ eng = EngAwaiting(pipe.agents)
          /\ adv = Off /\ evo = Off /\ ver = Off /\ mesh = Off /\ cons = Off
       \/ ConsInit /\ eng = EngAwaiting(cons.agents)
          /\ adv = Off /\ evo = Off /\ ver = Off /\ mesh = Off /\ pipe = Off
    /\ conc = Idle
    /\ rank = Idle
    /\ att = Idle
    /\ ser = Idle
    /\ store = Idle
    /\ twice = Idle

SpecStrategies == InitStrategies /\ [][NextStrategies]_vars

\* The roles the claims name as required, per strategy in the order of
\* Strategies: CognitiveMesh looks up 'dispatch' only.
CoreRoles == {"claude", "codex", "dispatch"}
RequiredRoles ==
    <<CoreRoles, CoreRoles, CoreRoles, {"dispatch"}, CoreRoles, CoreRoles>>

\* C16: if a role a strategy requires ('claude', 'codex' or 'dispatch') is
\* absent from the agent set, execute raises before any agent has been
\* invoked and returns no result mapping, for every strategy and each
\* required role.
C16_FailFastOnMissingRole ==
    \A k \in DOMAIN Strategies :
        ~(RequiredRoles[k] \subseteq Range(Strategies[k].agents)) =>
            /\ Strategies[k].calls = <<>>
            /\ Strategies[k].pc # "done"

\* C17: every strategy tolerates an agent set without 'ollama': with the
\* other roles present execute does not fail on a lookup (it raises only if
\* an agent call raised), and skips what depends on 'ollama'.
C17_ToleratesMissingOllama ==
    \A k \in DOMAIN Strategies :
        (/\ Strategies[k].pc # "off"
         /\ "ollama" \notin Range(Strategies[k].agents)
         /\ CoreRoles \subseteq Range(Strategies[k].agents)) =>
            /\ ~(Strategies[k].pc = "raised" /\ Strategies[k].calls = <<>>)
            /\ CallsTo(Strategies[k].calls, "ollama") = 0

\* C18: once execute has raised, no agent call is issued any more (the failing
\* call is not retried, no later stage, dispatch included, is invoked), and
\* DualEngine.run raises too and returns no PipelineResult.
C18_RaisePropagates ==
    /\ [](Running.pc = "raised" => (eng.pc # "returned" /\ eng.runs = <<>>))
    /\ [][/\ adv.pc = "raised" => adv' = adv
          /\ evo.pc = "raised" => evo' = evo
          /\ ver.pc = "raised" => ver' = ver
          /\ mesh.pc = "raised" => mesh' = mesh
          /\ pipe.pc = "raised" => pipe' = pipe
          /\ cons.pc = "raised" => cons' = cons
          /\ eng.pc = "raised" => eng' = eng]_vars

\* The builder call of a Pipeline run raised after the architect had
\* returned; run raised and no dispatch call was made.
C18_Witness ==
    /\ pipe.pc = "raised"
    /\ pipe.calls = <<"claude", "codex">>
    /\ eng.pc = "raised"
    /\ eng.runs = <<>>

\* The roles whose calls are the generators of a Consensus or mesh run.
Generators(k) ==
    IF k = 6 THEN {"claude", "codex"} ELSE NonDispatch(Strategies[k].agents)

\* C19: in Consensus and CognitiveMesh every generator call is issued before
\* any result is awaited, and the dispatch call is issued only after every
\* generator call has completed, whatever the order of completions.
C19_FanOutThenJoin ==
    \A k \in {4, 6} :
        LET c == Strategies[k]
        IN  c.pc \notin {"off", "raised"} =>
                /\ (c.completions # <<>> \/ c.pc \in {"gather", "dispatch", "done"})
                       => Generators(k) \subseteq Range(c.calls)
                /\ CallsTo(c.calls, "dispatch") > 0 =>
                       /\ InFlight(c) = {}
                       /\ {c.completions[i][1] : i \in DOMAIN c.completions}
                              = Generators(k)

\* A Consensus run that returned after codex completed before claude.
C19_Witness ==
    /\ cons.pc = "done"
    /\ Len(cons.completions) = 2
    /\ cons.completions[1][1] = "codex"
    /\ cons.completions[2][1] = "claude"
    /\ cons.calls = <<"claude", "codex", "dispatch">>


\* ---------------------------------------------------------------------
\* RoutingHistory on one path: the file and the objects opened on it
\* ---------------------------------------------------------------------

\* The RoutingHistory objects the program may hold on the same path.
InstanceIds == {"first", "second"}

\* The outcomes a caller records: (task, strategy, score in tenths).
HistTasks == RouterTasks
HistStrategies == {"consensus"}

\* The dict record() appends.
HistEntry(task, strategy, score) ==
    [task_signals |-> SignalsOf[task], strategy |-> strategy, score |-> score]

HistEntries ==
    {HistEntry(task, strategy, score) :
        task \in HistTasks, strategy \in HistStrategies,
        score \in RecordedScores}

\* The file as a run may find it: missing, cut short, or the document of an
\* earlier run.
TruncatedText == <<Punct("[")>>
FoundFiles ==
    {NoFile, FileWith(TruncatedText), FileWith(Dumps(<<>>))}
    \cup {FileWith(Dumps(<<e>>)) : e \in HistEntries}

\* No RoutingHistory constructed yet.
Unopened == [open |-> FALSE, history |-> <<>>]

\* The components a RoutingHistory leaves alone.
histRest ==
    <<adv, evo, ver, mesh, eng, conf, fit, rtr, pipe, cons,
      conc, rank, att, ser, store, twice, cross, best, route, sync>>

\* Before any RoutingHistory exists; `writers` is the set of objects that
\* have recorded, `found` the number of entries the file held at the start
\* and `recorded` the number of record() calls that returned.
HistInit ==
    \E file \in FoundFiles :
        hist = [file |-> file,
                objects |-> [id \in InstanceIds |-> Unopened],
                writers |-> {},
                found |-> Len(Loads(file.text).value),
                recorded |-> 0]

\* RoutingHistory(path): self._history = self._load()
HistOpen(id) ==
    /\ UNCHANGED histRest
    /\ ~hist.objects[id].open
    /\ hist' = [hist EXCEPT
                  !.objects[id] = [open |-> TRUE, history |-> Load(hist.file)]]

\* RoutingHistory.record: append the entry, then _save the whole list.
HistRecord(id) ==
    /\ UNCHANGED histRest
    /\ hist.objects[id].open
    /\ Len(hist.objects[id].history) < MaxHistory
    /\ \E task \in HistTasks, strategy \in HistStrategies,
          score \in RecordedScores :
        LET history == Append(hist.objects[id].history,
                              HistEntry(task, strategy, score))
        IN  hist' = [hist EXCEPT
                       !.objects[id].history = history,
                       !.file = FileWith(Dumps(history)),
                       !.writers = @ \cup {id},
                       !.recorded = @ + 1]

HistOpenAny == \E id \in InstanceIds : HistOpen(id)
HistRecordAny == \E id \in InstanceIds : HistRecord(id)

NextHistory == HistOpenAny \/ HistRecordAny

InitHistory ==
    /\ sync = Idle
    /\ route = Idle
    /\ best = Idle
    /\ cross = Idle
    /\ adv = Idle /\ evo = Idle /\ ver = Idle /\ mesh = Idle /\ eng = Idle
    /\ conf = Idle /\ fit = Idle /\ rtr = Idle /\ pipe = Idle /\ cons = Idle
    /\ HistInit
    /\ conc = Idle
    /\ rank = Idle
    /\ att = Idle
    /\ ser = Idle
    /\ store = Idle
    /\ twice = Idle

SpecHistory == InitHistory /\ [][NextHistory]_vars

\* s is t with exactly one entry added at the end.
OneAppended(s, t) == Len(s) = Len(t) + 1 /\ SubSeq(s, 1, Len(t)) = t

\* C20: RoutingHistory is append-only and persistent.  A step changes the
\* entries of an open object only by adding exactly one entry at the end,
\* every earlier entry staying as it was; and whenever one object alone has
\* recorded on the path, the file reads back as exactly that object's
\* entries in order, so a RoutingHistory opened on the path holds them.
C20_AppendOnlyAndPersistent ==
    /\ [][\A id \in InstanceIds :
            (hist.objects[id].open /\ hist'.objects[id].open) =>
                \/ hist'.objects[id].history = hist.objects[id].history
                \/ OneAppended(hist'.objects[id].history,
                               hist.objects[id].history)]_vars
    /\ [](\A id \in InstanceIds :
            hist.writers = {id} =>
                /\ hist.file.exists
                /\ Load(hist.file) = hist.objects[id].history)
    /\ [][\A id \in InstanceIds :
            (~hist.objects[id].open /\ hist'.objects[id].open) =>
                hist'.objects[id].history = Load(hist.file)]_vars

\* The first object recorded two outcomes, with one signal and with three,
\* and the second object, opened afterwards, holds both in order.
C20_Witness ==
    /\ hist.writers = {"first"}
    /\ Len(hist.objects["first"].history) = 2
    /\ Len(hist.objects["first"].history[1].task_signals)
         # Len(hist.objects["first"].history[2].task_signals)
    /\ hist.objects["first"].history[1].score
         # hist.objects["first"].history[2].score
    /\ hist.objects["second"].open
    /\ hist.objects["second"].history = hist.objects["first"].history


\* The entries the file holds now.
Persisted == Loads(hist.file.text).value

\* C21: with a single writer no update is lost: as long as at most one
\* RoutingHistory object has recorded on the path, the file holds every entry
\* it held at the start and one more for every record() that returned.
C21_SingleWriterLosesNothing ==
    Cardinality(hist.writers) <= 1 =>
        Len(Persisted) = hist.found + hist.recorded

\* Both objects were opened before either recorded, each then recorded one
\* entry without error, and the file, written by the later save, holds fewer
\* entries than were found and recorded: a lost update.
C21_Witness ==
    /\ hist.writers = InstanceIds
    /\ hist.recorded = 2
    /\ \A id \in InstanceIds :
          Len(hist.objects[id].history) = hist.found + 1
    /\ \E id \in InstanceIds : Persisted = hist.objects[id].history
    /\ Len(Persisted) < hist.found + hist.recorded

(***************************************************************************)
(* Two DualEngine.run coroutines on one engine                              *)
(*                                                                          *)
(* run is a coroutine: its parameters and the local `result` live in the    *)
(* frame of the call.  It suspends once, at `await strategy.execute(...)`,  *)
(* and runs to its return without suspending again.  A strategy's result is *)
(* a function of the strategy and the task, the agents' replies being a     *)
(* function of the prompt.                                                  *)
(***************************************************************************)

\* The two overlapping calls.
RunIds == {1, 2}

ConcTasks == {"t1", "t2"}
ConcStrategies == {"consensus", "adversarial"}
ConcAgentNames == {"claude", "ollama"}

\* What strategy.execute(task, agents, context) returns.
StrategyOutcome(strategy, task) ==
    CASE strategy = "consensus" ->
            <<<<Key("claude"), Str("a")>>,
              <<Key("codex"), Str(IF task = "t1" THEN "a" ELSE "b")>>,
              <<Key("dispatch"), Str(IF task = "t1" THEN "a" ELSE "b")>>,
              <<<<"strategy">>, Str("consensus")>>>>
      [] strategy = "adversarial" ->
            <<<<Key("build"), Str(IF task = "t1" THEN "a" ELSE "b")>>,
              <<Key("dispatch"), IF task = "t1" THEN Str("a") ELSE None>>,
              <<<<"rounds">>, IntVal("3")>>>>

\* No call of run made.
NoFrame ==
    [pc |-> "none", strategy |-> "", task |-> "", before |-> <<>>,
     disturbed |-> FALSE]

\* The components the engine leaves alone.
concRest ==
    <<adv, evo, ver, mesh, eng, conf, fit, rtr, pipe, cons, hist,
      rank, att, ser, store, twice, cross, best, route, sync>>

\* DualEngine(): no agent registered, no call of run made.  `calls` lists the
\* calls of run in the order they were made; a frame's `before` is the agents
\* mapping at its call and `disturbed` tells that register_agent ran while
\* the call was suspended.
ConcInit ==
    conc = [agents |-> <<>>,
            frames |-> [r \in RunIds |-> NoFrame],
            calls |-> <<>>,
            returned |-> <<>>]

\* register_agent(name, agent)
ConcRegisterAgent ==
    /\ UNCHANGED concRest
    /\ \E name \in ConcAgentNames :
        /\ name \notin Range(conc.agents)
        /\ conc' = [conc EXCEPT
                      !.agents = Append(@, name),
                      !.frames = [r \in RunIds |->
                          IF conc.frames[r].pc = "await"
                          THEN [conc.frames[r] EXCEPT !.disturbed = TRUE]
                          ELSE conc.frames[r]]]

\* run(strategy, task) is called and suspends at the await.
ConcRunCall(r) ==
    /\ UNCHANGED concRest
    /\ conc.frames[r].pc = "none"
    /\ \E strategy \in ConcStrategies, task \in ConcTasks :
        conc' = [conc EXCEPT
                   !.frames[r] = [pc |-> "await", strategy |-> strategy,
                                  task |-> task, before |-> conc.agents,
                                  disturbed |-> FALSE],
                   !.calls = Append(@, r)]

\* The frame of the latest call of run, whichever call resumes.
LatestFrame(r) == conc.frames[conc.calls[Len(conc.calls)]]

\* The frame of call r: its strategy and task parameters.
FrameOf(r) == conc.frames[r]

\* The strategy returns to call r, which builds its PipelineResult and
\* returns it.
ConcRunResume(r) ==
    /\ UNCHANGED concRest
    /\ conc.frames[r].pc = "await"
    /\ LET result == StrategyOutcome(FrameOf(r).strategy, FrameOf(r).task)
       IN  conc' = [conc EXCEPT
                      !.frames[r].pc = "done",
                      !.returned = Append(@,
                          <<r, PipelineResult(conc.agents, result,
                                              FrameOf(r).strategy)>>)]

ConcRunCallAny == \E r \in RunIds : ConcRunCall(r)
ConcRunResumeAny == \E r \in RunIds : ConcRunResume(r)

NextConc == ConcRegisterAgent \/ ConcRunCallAny \/ ConcRunResumeAny

InitConc ==
    /\ sync = Idle
    /\ route = Idle
    /\ best = Idle
    /\ cross = Idle
    /\ adv = Idle /\ evo = Idle /\ ver = Idle /\ mesh = Idle /\ eng = Idle
    /\ conf = Idle /\ fit = Idle /\ rtr = Idle /\ pipe = Idle /\ cons = Idle
    /\ hist = Idle /\ rank = Idle /\ att = Idle /\ ser = Idle /\ store = Idle
    /\ ConcInit
    /\ twice = Idle

SpecConc == InitConc /\ [][NextConc]_vars

\* The PipelineResult call r returns when no other call is made.
Alone(r) ==
    PipelineResult(conc.frames[r].before,
                   StrategyOutcome(conc.frames[r].strategy,
                                   conc.frames[r].task),
                   conc.frames[r].strategy)

MaxCandidates == 3

\* The code strings a caller may pass.
RankCodes == {"a", "b"}

\* The candidate lists a caller may pass, duplicates included.
CandidateLists == UNION {[1..n -> RankCodes] : n \in 0..MaxCandidates}

\* What self.evaluate(code, task) may return: two scores of equal total,
\* a higher one and a lower one.
RankScores ==
    {FitnessScore(80, 0, 0, 60, 0), FitnessScore(0, 100, 100, 50, 0),
     FitnessScore(100, 100, 0, 0, 0), DefaultScore}

\* CandidateResult(code=code, fitness=fitness)
CandidateResult(code, fitness) ==
    [code |-> code, fitness |-> fitness, generation |-> 0,
     parent_indices |-> <<>>]

\* CandidateResult.rank_key
RankKey(r) == Total(r.fitness)

Reverse(s) == [i \in DOMAIN s |-> s[Len(s) + 1 - i]]

\* x put into an ascending list behind every element that is not greater.
RECURSIVE Insert(_, _)
Insert(x, s) ==
    IF s = <<>> THEN <<x>>
    ELSE IF RankKey(Head(s)) <= RankKey(x)
         THEN <<Head(s)>> \o Insert(x, Tail(s))
         ELSE <<x>> \o s

\* The stable ascending sort of list.sort.
RECURSIVE SortAscending(_)
SortAscending(s) ==
    IF s = <<>> THEN <<>>
    ELSE Insert(s[Len(s)], SortAscending(SubSeq(s, 1, Len(s) - 1)))

\* The ascending sort read backwards.
SortDescendingBackwards(results) == Reverse(SortAscending(results))

\* results.sort(key=..., reverse=True): the list is reversed, sorted
\* ascending and reversed again.
SortDescending(results) == Reverse(SortAscending(Reverse(results)))

\* The components a ranking leaves alone.
rankRest ==
    <<adv, evo, ver, mesh, eng, conf, fit, rtr, pipe, cons,
      hist, conc, att, ser, store, twice, cross, best, route, sync>>

\* rank_candidates(candidates, task) is called; `scored` keeps the results in
\* the order the loop appended them, `out` holds the list returned.
RankInit ==
    \E candidates \in CandidateLists :
        rank = [pc |-> "loop", candidates |-> candidates, scored |-> <<>>,
                out |-> <<>>]

\* One turn of the loop: the next candidate is evaluated and appended.
RankEvaluate ==
    /\ UNCHANGED rankRest
    /\ rank.pc = "loop"
    /\ Len(rank.scored) < Len(rank.candidates)
    /\ \E fitness \in RankScores :
        rank' = [rank EXCEPT !.scored = Append(@,
                    CandidateResult(rank.candidates[Len(rank.scored) + 1],
                                    fitness))]

\* The loop is over: the results are sorted and returned.
RankReturn ==
    /\ UNCHANGED rankRest
    /\ rank.pc = "loop"
    /\ Len(rank.scored) = Len(rank.candidates)
    /\ rank' = [rank EXCEPT !.pc = "done",
                            !.out = SortDescending(rank.scored)]

NextRank == RankEvaluate \/ RankReturn

InitRank ==
    /\ sync = Idle
    /\ route = Idle
    /\ best = Idle
    /\ cross = Idle
    /\ adv = Idle /\ evo = Idle /\ ver = Idle /\ mesh = Idle /\ eng = Idle
    /\ conf = Idle /\ fit = Idle /\ rtr = Idle /\ pipe = Idle /\ cons = Idle
    /\ hist = Idle /\ conc = Idle /\ att = Idle /\ ser = Idle /\ store = Idle
    /\ RankInit
    /\ twice = Idle

SpecRank == InitRank /\ [][NextRank]_vars

\* The ways to rearrange n positions.
Rearrangements(n) ==
    {p \in [1..n -> 1..n] : \A i, j \in 1..n : i # j => p[i] # p[j]}

\* C23: rank_candidates returns one CandidateResult per input code string, a
\* rearrangement of the inputs with their scores (duplicates included),
\* ordered by weighted total descending, candidates of equal total keeping
\* their input order.
C23_RankedStable ==
    rank.pc = "done" =>
        /\ Len(rank.out) = Len(rank.candidates)
        /\ \E p \in Rearrangements(Len(rank.candidates)) :
            /\ \A i \in DOMAIN rank.out :
                /\ rank.out[i] = rank.scored[p[i]]
                /\ rank.out[i].code = rank.candidates[p[i]]
            /\ \A i, j \in DOMAIN rank.out :
                i < j =>
                    /\ RankKey(rank.out[i]) >= RankKey(rank.out[j])
                    /\ RankKey(rank.out[i]) = RankKey(rank.out[j])
                          => p[i] < p[j]

\* Three candidates, one code given twice, were ranked: the first and the
\* last tie with different scores, the middle one is higher and comes first,
\* and the tied ones follow in their input order.
C23_Witness ==
    /\ rank.pc = "done"
    /\ rank.candidates = <<"a", "b", "a">>
    /\ RankKey(rank.scored[1]) = RankKey(rank.scored[3])
    /\ rank.scored[1] # rank.scored[3]
    /\ RankKey(rank.scored[2]) > RankKey(rank.scored[1])
    /\ rank.out = <<rank.scored[2], rank.scored[1], rank.scored[3]>>

(***************************************************************************)
(* SecurityAttestation.overall_score                                        *)
(*                                                                          *)
(* The ratios are floats in the code; for the list lengths of the model     *)
(* int(25 * (a / b)) and int(score * (4 / checks)) equal the exact integer  *)
(* quotients, which the model computes.                                     *)
(***************************************************************************)

MaxItems == 2

\* Lists of at most MaxItems elements drawn from `kinds`, up to the order of
\* their elements: the reports' properties count elements and never read
\* their positions.
ListsOf(kinds) ==
    UNION {{[i \in 1..n |-> kinds[f[i]]] :
              f \in {g \in [1..n -> DOMAIN kinds] :
                        \A i, j \in 1..n : i < j => g[i] <= g[j]}} :
           n \in 0..MaxItems}

\* A check that was not performed.
NotPerformed == [performed |-> FALSE]

\* OWASPReport(findings): each finding has a severity and may be
\* cross-validated.
OWASPReports ==
    {[performed |-> TRUE, findings |-> f] :
        f \in ListsOf(<<[severity |-> "high", cross_validated |-> TRUE],
                       [severity |-> "low", cross_validated |-> TRUE],
                       [severity |-> "critical", cross_validated |-> FALSE]>>)}

\* SupplyChainReport(dependencies, slopsquatting_suspects)
SupplyChainReports ==
    {[performed |-> TRUE, dependencies |-> d, slopsquatting_suspects |-> s] :
        d \in ListsOf(<<[verified |-> TRUE, risk_level |-> "safe"],
                       [verified |-> FALSE, risk_level |-> "high"]>>),
        s \in {<<>>, <<"reqeusts">>}}

\* ThreatModel(threats)
ThreatModels ==
    {[performed |-> TRUE, threats |-> t] :
        t \in ListsOf(<<[severity |-> "critical", status |-> "mitigated"],
                       [severity |-> "critical", status |-> "identified"],
                       [severity |-> "low", status |-> "identified"]>>)}

\* ComplianceReport(checks)
ComplianceReports ==
    {[performed |-> TRUE, checks |-> c] :
        c \in ListsOf(<<[status |-> "pass"], [status |-> "fail"],
                       [status |-> "not_applicable"]>>)}

\* len([x for x in list if P(x)])
Count(list, P(_)) == Cardinality({i \in DOMAIN list : P(list[i])})

\* OWASPReport.is_clean
IsClean(owasp) ==
    Count(owasp.findings,
          LAMBDA f : f.severity \in {"critical", "high"} /\ f.cross_validated)
      = 0

\* OWASPReport.vulnerability_count
VulnerabilityCount(owasp) ==
    Count(owasp.findings, LAMBDA f : f.cross_validated)

\* SupplyChainReport.is_safe
IsSafe(supply_chain) ==
    /\ Count(supply_chain.dependencies,
             LAMBDA d : d.risk_level \in {"high", "critical"}) = 0
    /\ Len(supply_chain.slopsquatting_suspects) = 0

\* SupplyChainReport.verified_count
VerifiedCount(supply_chain) ==
    Count(supply_chain.dependencies, LAMBDA d : d.verified)

\* ThreatModel.critical_threats
CriticalThreats(threat_model) ==
    SelectSeq(threat_model.threats, LAMBDA t : t.severity = "critical")

\* The applicable checks and the passed ones of ComplianceReport.pass_rate.
Applicable(compliance) ==
    Count(compliance.checks, LAMBDA c : c.status # "not_applicable")
Passed(compliance) ==
    Count(compliance.checks,
          LAMBDA c : c.status # "not_applicable" /\ c.status = "pass")

\* The points of each check, 0 for one that was not performed.
OwaspPoints(owasp) ==
    IF ~owasp.performed THEN 0
    ELSE IF IsClean(owasp) THEN 25
    ELSE Max(25 - Min(VulnerabilityCount(owasp) * 5, 25), 0)

SupplyChainPoints(supply_chain) ==
    IF ~supply_chain.performed THEN 0
    ELSE IF IsSafe(supply_chain) THEN 25
    ELSE (25 * VerifiedCount(supply_chain))
            \div Max(Len(supply_chain.dependencies), 1)

ThreatModelPoints(threat_model) ==
    IF ~threat_model.performed THEN 0
    ELSE IF CriticalThreats(threat_model) = <<>> THEN 25
    ELSE (25 * Count(threat_model.threats, LAMBDA t : t.status = "mitigated"))
            \div Max(Len(threat_model.threats), 1)

CompliancePoints(compliance) ==
    IF ~compliance.performed THEN 0
    ELSE IF Applicable(compliance) = 0 THEN 25
    ELSE (25 * Passed(compliance)) \div Applicable(compliance)

\* The reports of an attestation, in the order overall_score reads them.
ReportsOf(a) == <<a.owasp, a.supply_chain, a.threat_model, a.compliance>>

\* `checks`: the number of reports that are not None.
ChecksPerformed(a) == Count(ReportsOf(a), LAMBDA r : r.performed)

\* `score` before scaling.
PointsOf(a) ==
    OwaspPoints(a.owasp) + SupplyChainPoints(a.supply_chain)
    + ThreatModelPoints(a.threat_model) + CompliancePoints(a.compliance)

\* The points as they are, whatever the number of performed checks.
Unscaled(score, checks) == Min(score, 100)

\* min(int(score * (4 / checks)), 100)
Scaled(score, checks) == Min((score * 4) \div checks, 100)

\* SecurityAttestation.overall_score
OverallScore(a) ==
    IF ChecksPerformed(a) = 0 THEN 0
    ELSE Scaled(PointsOf(a), ChecksPerformed(a))

\* The components an attestation leaves alone.
attRest ==
    <<adv, evo, ver, mesh, eng, conf, fit, rtr, pipe, cons,
      hist, conc, rank, ser, store, twice, cross, best, route, sync>>

\* SecurityAttestation(metadata, owasp, supply_chain, threat_model,
\* compliance); `score` holds the latest read of overall_score.
AttInit ==
    \E owasp \in OWASPReports \cup {NotPerformed},
       supply_chain \in SupplyChainReports \cup {NotPerformed},
       threat_model \in ThreatModels \cup {NotPerformed},
       compliance \in ComplianceReports \cup {NotPerformed} :
        att = [owasp |-> owasp, supply_chain |-> supply_chain,
               threat_model |-> threat_model, compliance |-> compliance,
               score |-> <<>>]

\* attestation.overall_score
AttReadScore ==
    /\ UNCHANGED attRest
    /\ att.score = <<>>
    /\ att' = [att EXCEPT !.score = <<OverallScore(att)>>]

NextAtt == AttReadScore

InitAtt ==
    /\ sync = Idle
    /\ route = Idle
    /\ best = Idle
    /\ cross = Idle
    /\ adv = Idle /\ evo = Idle /\ ver = Idle /\ mesh = Idle /\ eng = Idle
    /\ conf = Idle /\ fit = Idle /\ rtr = Idle /\ pipe = Idle /\ cons = Idle
    /\ hist = Idle /\ conc = Idle /\ rank = Idle /\ ser = Idle
    /\ store = Idle
    /\ AttInit
    /\ twice = Idle

SpecAtt == InitAtt /\ [][NextAtt]_vars

\* The points of the four checks, in the order of ReportsOf.
CheckPoints(a) ==
    <<OwaspPoints(a.owasp), SupplyChainPoints(a.supply_chain),
      ThreatModelPoints(a.threat_model), CompliancePoints(a.compliance)>>

\* Every performed check of the attestation is clean.
AllClean(a) ==
    /\ a.owasp.performed => IsClean(a.owasp)
    /\ a.supply_chain.performed => IsSafe(a.supply_chain)
    /\ a.threat_model.performed => CriticalThreats(a.threat_model) = <<>>
    /\ a.compliance.performed => Passed(a.compliance) = Applicable(a.compliance)

\* C25: overall_score is 0 when no check was performed; otherwise every
\* performed check gives 0 to 25 points and the score is the sum of the
\* points times 4 / checks_performed, truncated to an integer and capped at
\* 100; it lies in [0,100] for every combination of reports and is 100 when
\* every performed check is clean.
C25_OverallScore ==
    att.score # <<>> =>
        LET s == att.score[1]
            n == ChecksPerformed(att)
            points == Sum(CheckPoints(att))
        IN  /\ s \in 0..100
            /\ n = 0 => s = 0
            /\ \A i \in 1..4 :
                  /\ CheckPoints(att)[i] \in 0..25
                  /\ ~ReportsOf(att)[i].performed => CheckPoints(att)[i] = 0
            /\ n > 0 =>
                  \/ s = 100 /\ 4 * points >= 100 * n
                  \/ s < 100 /\ s * n <= 4 * points /\ 4 * points < (s + 1) * n
            /\ (n > 0 /\ AllClean(att)) => s = 100

\* Three checks were performed, OWASP with one cross-validated high finding
\* (20 points) and two clean ones: 70 points scale to 93.33 and read as 93.
C25_Witness ==
    /\ att.score = <<93>>
    /\ ChecksPerformed(att) = 3
    /\ OwaspPoints(att.owasp) = 20
    /\ ~att.compliance.performed

(***************************************************************************)
(* to_dict / from_dict of the report and entry data types                   *)
(*                                                                          *)
(* An instance is the record of its fields; a dict is a function from its   *)
(* keys.  The clock read by __post_init__ is an input of every construction.*)
(***************************************************************************)

SerTypes ==
    {"Threat", "ComplianceCheck", "RoutingEntry", "ProjectSnapshot",
     "StrategyListing"}

\* The classes that define to_dict and from_dict.
Serializable == {"Threat", "RoutingEntry", "ProjectSnapshot", "StrategyListing"}

\* What the clock may read: time.time(), and its isoformat.
Clock == {1, 2}
IsoFormat(now) == IF now = 1 THEN "t1" ELSE "t2"

\* The arguments a caller may construct each class with; an argument left
\* out has the default of the dataclass.
Arguments(type) ==
    CASE type = "Threat" ->
            [id : {"T1"}, name : {"n"}, category : {"S"}, description : {"d"},
             severity : {"critical", "low"}, mitigation : {"", "m"},
             status : {"identified", "mitigated"}]
      [] type = "ComplianceCheck" ->
            [framework : {"soc2"}, control_id : {"CC6.1"},
             control_name : {"c"}, status : {"pass", "fail"},
             evidence : {"", "e"}, recommendation : {""}]
      [] type = "RoutingEntry" ->
            [task_hash : {"h"}, task_signals : {<<>>, <<"security">>},
             strategy : {"consensus"}, score : {5, 10}, timestamp : {0, 1},
             user_id : {"", "u"}, team_id : {""}]
      [] type = "ProjectSnapshot" ->
            [project_name : {"p"}, timestamp : {"", "t1"},
             security_score : {0, 93}, confidence_score : {0},
             strategy_used : {""}, owasp_clean : BOOLEAN,
             supply_chain_safe : {FALSE}, compliance_pass_rate : {0},
             threats_count : {0}, agents_used : {<<>>, <<"claude">>}]
      [] type = "StrategyListing" ->
            [name : {"s"}, display_name : {"S"}, description : {"d"},
             author : {"a"}, version : {"0.1.0"}, tags : {<<>>, <<"x">>},
             install_source : {""}, downloads : {0, 7}, rating : {0},
             rating_count : {0}, stages_required : {<<>>, <<1, 5>>}]

\* The defaults of the fields that have one.
Defaults(type) ==
    CASE type = "Threat" -> [mitigation |-> "", status |-> "identified"]
      [] type = "ComplianceCheck" -> [evidence |-> "", recommendation |-> ""]
      [] type = "RoutingEntry" ->
            [timestamp |-> 0, user_id |-> "", team_id |-> ""]
      [] type = "ProjectSnapshot" ->
            [timestamp |-> "", security_score |-> 0, confidence_score |-> 0,
             strategy_used |-> "", owasp_clean |-> FALSE,
             supply_chain_safe |-> FALSE, compliance_pass_rate |-> 0,
             threats_count |-> 0, agents_used |-> <<>>]
      [] type = "StrategyListing" ->
            [tags |-> <<>>, install_source |-> "", downloads |-> 0,
             rating |-> 0, rating_count |-> 0, stages_required |-> <<>>]

\* cls.__dataclass_fields__
DataclassFields(type) == DOMAIN (CHOOSE x \in Arguments(type) : TRUE)

\* __post_init__: a timestamp that is not given (falsy) is read off the clock.
PostInit(type, x, now) ==
    CASE type = "RoutingEntry" /\ x.timestamp = 0 ->
            [x EXCEPT !.timestamp = now]
      [] type = "ProjectSnapshot" /\ x.timestamp = "" ->
            [x EXCEPT !.timestamp = IsoFormat(now)]
      [] OTHER -> x

\* cls(**kwargs): the given fields, the defaults for the others, __post_init__.
Construct(type, kwargs, now) ==
    PostInit(type,
             [f \in DataclassFields(type) |->
                IF f \in DOMAIN kwargs THEN kwargs[f] ELSE Defaults(type)[f]],
             now)

\* x.to_dict(): every method lists every field of its class.
ToDict(type, x) == [k \in DataclassFields(type) |-> x[k]]

\* cls.from_dict(data): Threat passes every key on, the other classes the
\* keys that are fields.
FromDict(type, data, now) ==
    Construct(type,
              [k \in (IF type = "Threat" THEN DOMAIN data
                      ELSE DOMAIN data \cap DataclassFields(type)) |->
                  data[k]],
              now)

\* The components a round trip leaves alone.
serRest ==
    <<adv, evo, ver, mesh, eng, conf, fit, rtr, pipe, cons,
      hist, conc, rank, att, store, twice, cross, best, route, sync>>

\* Nothing constructed yet.
SerInit == ser = [pc |-> "new", type |-> "", x |-> <<>>, data |-> <<>>,
                  y |-> <<>>]

\* x = cls(...)
SerConstruct ==
    /\ UNCHANGED serRest
    /\ ser.pc = "new"
    /\ \E type \in SerTypes, now \in Clock :
        \E kwargs \in Arguments(type) :
            ser' = [ser EXCEPT !.pc = "instance", !.type = type,
                               !.x = Construct(type, kwargs, now)]

\* data = x.to_dict()
SerToDict ==
    /\ UNCHANGED serRest
    /\ ser.pc = "instance"
    /\ ser.type \in Serializable
    /\ ser' = [ser EXCEPT !.pc = "dict", !.data = ToDict(ser.type, ser.x)]

\* x.to_dict() on a class that does not define it: AttributeError.
SerNoMethod ==
    /\ UNCHANGED serRest
    /\ ser.pc = "instance"
    /\ ser.type \notin Serializable
    /\ ser' = [ser EXCEPT !.pc = "AttributeError"]

\* y = cls.from_dict(data)
SerFromDict ==
    /\ UNCHANGED serRest
    /\ ser.pc = "dict"
    /\ \E now \in Clock :
        ser' = [ser EXCEPT !.pc = "back",
                           !.y = FromDict(ser.type, ser.data, now)]

NextSer == SerConstruct \/ SerToDict \/ SerNoMethod \/ SerFromDict

InitSer ==
    /\ sync = Idle
    /\ route = Idle
    /\ best = Idle
    /\ cross = Idle
    /\ adv = Idle /\ evo = Idle /\ ver = Idle /\ mesh = Idle /\ eng = Idle
    /\ conf = Idle /\ fit = Idle /\ rtr = Idle /\ pipe = Idle /\ cons = Idle
    /\ hist = Idle /\ conc = Idle /\ rank = Idle /\ att = Idle
    /\ store = Idle
    /\ SerInit
    /\ twice = Idle

SpecSer == InitSer /\ [][NextSer]_vars

\* C26: for each of Threat, ComplianceCheck, RoutingEntry, ProjectSnapshot
\* and StrategyListing and every instance x, x can be serialized and the
\* instance deserialized from the map equals x field for field.
C26_RoundTripEqual ==
    /\ ser.pc # "AttributeError"
    /\ ser.pc = "back" => ser.y = ser.x

(***************************************************************************)
(* Loading a persisted JSON document                                        *)
(*                                                                          *)
(* A text is the sequence of its JSON tokens, as for the routing history.   *)
(* json.loads is a recursive-descent parser over them; a parsed value       *)
(* carries its Python type.                                                 *)
(***************************************************************************)

\* json.loads could not parse from this position.
ParseFail == [ok |-> FALSE, next |-> 0]

RECURSIVE ParseValue(_, _)
RECURSIVE ParseItems(_, _, _)
RECURSIVE ParsePairs(_, _, _)

\* The JSON value that starts at token i.
ParseValue(text, i) ==
    IF i > Len(text) THEN ParseFail
    ELSE IF text[i][1] = "s"
    THEN [ok |-> TRUE, value |-> [t |-> "str", s |-> text[i][2]],
          next |-> i + 1]
    ELSE IF text[i][1] = "n"
    THEN [ok |-> TRUE, value |-> [t |-> "num", n |-> text[i][2]],
          next |-> i + 1]
    ELSE IF text[i] = Punct("[") THEN ParseItems(text, i + 1, <<>>)
    ELSE IF text[i] = Punct("{") THEN ParsePairs(text, i + 1, <<>>)
    ELSE ParseFail

\* The elements of an array up to its closing bracket.
ParseItems(text, i, acc) ==
    IF i > Len(text) THEN ParseFail
    ELSE IF text[i] = Punct("]")
    THEN [ok |-> TRUE, value |-> [t |-> "list", items |-> acc],
          next |-> i + 1]
    ELSE LET r == ParseValue(text, i)
         IN  IF r.ok THEN ParseItems(text, r.next, Append(acc, r.value))
             ELSE ParseFail

\* The members of an object up to its closing brace.
ParsePairs(text, i, acc) ==
    IF i > Len(text) THEN ParseFail
    ELSE IF text[i] = Punct("}")
    THEN [ok |-> TRUE, value |-> [t |-> "dict", pairs |-> acc],
          next |-> i + 1]
    ELSE IF text[i][1] # "s" THEN ParseFail
    ELSE LET r == ParseValue(text, i + 1)
         IN  IF r.ok
             THEN ParsePairs(text, r.next,
                             Append(acc, <<text[i][2], r.value>>))
             ELSE ParseFail

\* json.loads(text): one value and nothing after it, else JSONDecodeError.
JsonLoads(text) ==
    LET r == ParseValue(text, 1)
    IN  IF r.ok /\ r.next = Len(text) + 1 THEN r ELSE ParseFail

\* The keys of a parsed object.
KeysOf(dict) == {dict.pairs[i][1] : i \in DOMAIN dict.pairs}

\* dict.get(key, default): the last member of that name.
DictGet(dict, key, default) ==
    IF key \in KeysOf(dict)
    THEN dict.pairs[CHOOSE i \in DOMAIN dict.pairs :
                      /\ dict.pairs[i][1] = key
                      /\ \A j \in DOMAIN dict.pairs :
                            dict.pairs[j][1] = key => j <= i][2]
    ELSE default

StoreKinds ==
    {"RoutingHistory", "CloudRoutingSync", "DashboardStore",
     "StrategyMarketplace", "ThreatModelEngine"}

\* The member of the document that lists the store's items.
ListKey(kind) ==
    CASE kind = "CloudRoutingSync" -> "entries"
      [] kind = "DashboardStore" -> "snapshots"
      [] kind = "StrategyMarketplace" -> "listings"
      [] kind = "ThreatModelEngine" -> "threats"

\* The fields of the item class that have no default.
RequiredFields(kind) ==
    CASE kind = "CloudRoutingSync" ->
            {"task_hash", "task_signals", "strategy", "score"}
      [] kind = "DashboardStore" -> {"project_name"}
      [] kind = "StrategyMarketplace" ->
            {"name", "display_name", "description", "author", "version"}
      [] kind = "ThreatModelEngine" ->
            {"id", "name", "category", "description", "severity"}

\* from_dict(item) of the item class: "" if it returns, else the exception.
\* Threat passes every key to the constructor; the other classes read
\* item.items() and keep the keys that are fields.
ItemError(kind, item) ==
    IF item.t # "dict"
    THEN IF kind = "ThreatModelEngine" THEN "TypeError" ELSE "AttributeError"
    ELSE IF ~(RequiredFields(kind) \subseteq KeysOf(item)) THEN "TypeError"
    ELSE IF kind = "ThreatModelEngine"
            /\ ~(KeysOf(item) \subseteq
                    RequiredFields(kind) \cup {"mitigation", "status"})
    THEN "TypeError"
    ELSE ""

\* What the comprehension over data.get(key, []) iterates.
Iterated(value) ==
    CASE value.t = "list" -> value.items
      [] value.t = "dict" ->
            [i \in DOMAIN value.pairs |-> [t |-> "str", s |-> value.pairs[i][1]]]
      [] value.t = "str" ->
            IF value.s = "" THEN <<>> ELSE <<[t |-> "str", s |-> value.s]>>
      [] OTHER -> <<>>

\* The store's items of no document.
EmptyState == [t |-> "list", items |-> <<>>]

\* The file at the persist path: missing, bytes that are not text, or a text.
StoreMissing == [exists |-> FALSE, decodable |-> TRUE, text |-> <<>>]
StoreBytes == [exists |-> TRUE, decodable |-> FALSE, text |-> <<>>]
StoreText(text) == [exists |-> TRUE, decodable |-> TRUE, text |-> text]

\* The load of the store on the file: `error` is "" if the load returns and
\* else the exception that leaves it; `state` is what the store then holds.
\* Every load but ThreatModelEngine.load catches JSONDecodeError and OSError.
LoadOutcome(kind, file) ==
    IF ~file.exists
    THEN [error |-> "",
          state |-> IF kind = "ThreatModelEngine" THEN [t |-> "none"]
                    ELSE EmptyState]
    ELSE IF ~file.decodable
    THEN [error |-> "UnicodeDecodeError", state |-> EmptyState]
    ELSE LET r == JsonLoads(file.text)
         IN  IF ~r.ok
             THEN IF kind = "ThreatModelEngine"
                  THEN [error |-> "JSONDecodeError", state |-> EmptyState]
                  ELSE [error |-> "", state |-> EmptyState]
             ELSE IF kind = "RoutingHistory"
             THEN [error |-> "", state |-> r.value]
             ELSE IF r.value.t # "dict"
             THEN [error |-> "AttributeError", state |-> EmptyState]
             ELSE LET listed == DictGet(r.value, ListKey(kind), EmptyState)
                      items == Iterated(listed)
                      bad == {i \in DOMAIN items :
                                 ItemError(kind, items[i]) # ""}
                  IN  IF listed.t = "num"
                      THEN [error |-> "TypeError", state |-> EmptyState]
                      ELSE IF bad = {}
                      THEN [error |-> "",
                            state |-> [t |-> "list", items |-> items]]
                      ELSE [error |->
                               ItemError(kind,
                                   items[CHOOSE i \in bad :
                                            \A j \in bad : i <= j]),
                            state |-> EmptyState]

\* The texts a store may find at its path.
ItemText(keys) ==
    <<Punct("{")>>
    \o [i \in 1..(2 * Len(keys)) |->
          IF i % 2 = 1 THEN JStr(keys[(i + 1) \div 2]) ELSE JStr("v")]
    \o <<Punct("}")>>

DocumentWith(key, items) ==
    <<Punct("{"), JStr(key), Punct("[")>> \o items \o <<Punct("]"), Punct("}")>>

StoreTexts ==
    {<<>>, <<Punct("{")>>, <<Punct("[")>>, <<JStr("x"), JStr("y")>>,
     <<Punct("{"), JStr("entries"), Punct("}")>>,
     <<Punct("["), Punct("]")>>, <<Punct("{"), Punct("}")>>,
     <<JStr("x")>>, <<JNum("1")>>}
    \cup {DocumentWith(key, <<>>) :
            key \in {"entries", "snapshots", "listings", "threats"}}
    \cup {DocumentWith("snapshots", ItemText(<<"project_name">>)),
          DocumentWith("snapshots", <<JStr("x")>>),
          DocumentWith("entries", ItemText(<<"task_hash">>)),
          DocumentWith("threats",
                       ItemText(<<"id", "name", "category", "description",
                                  "severity">>)),
          <<Punct("{"), JStr("listings"), JNum("1"), Punct("}")>>}

StoreFiles == {StoreMissing, StoreBytes} \cup {StoreText(t) : t \in StoreTexts}

\* The components a store leaves alone.
storeRest ==
    <<adv, evo, ver, mesh, eng, conf, fit, rtr, pipe, cons,
      hist, conc, rank, att, ser, twice, cross, best, route, sync>>

\* A store about to be constructed on a path (ThreatModelEngine: about to
\* be asked to load).
StoreInit ==
    \E kind \in StoreKinds, file \in StoreFiles :
        store = [pc |-> "closed", kind |-> kind, file |-> file,
                 state |-> EmptyState]

\* The load returns.
StoreLoad ==
    /\ UNCHANGED storeRest
    /\ store.pc = "closed"
    /\ LoadOutcome(store.kind, store.file).error = ""
    /\ store' = [store EXCEPT
                   !.pc = "loaded",
                   !.state = LoadOutcome(store.kind, store.file).state]

\* The load raises to its caller.
StoreLoadRaises ==
    /\ UNCHANGED storeRest
    /\ store.pc = "closed"
    /\ LoadOutcome(store.kind, store.file).error # ""
    /\ store' = [store EXCEPT
                   !.pc = LoadOutcome(store.kind, store.file).error]

NextStore == StoreLoad \/ StoreLoadRaises

InitStore ==
    /\ sync = Idle
    /\ route = Idle
    /\ best = Idle
    /\ cross = Idle
    /\ adv = Idle /\ evo = Idle /\ ver = Idle /\ mesh = Idle /\ eng = Idle
    /\ conf = Idle /\ fit = Idle /\ rtr = Idle /\ pipe = Idle /\ cons = Idle
    /\ hist = Idle /\ conc = Idle /\ rank = Idle /\ att = Idle /\ ser = Idle
    /\ StoreInit
    /\ twice = Idle

SpecStore == InitStore /\ [][NextStore]_vars

\* The file is missing or its content is not a JSON document.
MissingOrCorrupt(file) ==
    \/ ~file.exists
    \/ ~file.decodable
    \/ ~JsonLoads(file.text).ok

\* C27: when the persisted document is missing or corrupt, the load of every
\* store returns, leaving the store in its empty initial state (None for
\* ThreatModelEngine.load); no load raises to its caller.
C27_LoadNeverPropagates ==
    (store.pc # "closed" /\ MissingOrCorrupt(store.file)) =>
        /\ store.pc = "loaded"
        /\ store.state \in {EmptyState, [t |-> "none"]}

\* C28: every PipelineResult that DualEngine.run returns has
\* architecture_preserved, tests_passing and owasp_clean set, whichever of
\* the strategies ran and whatever the agents returned.
C28_ConfidenceFlagsAlwaysTrue ==
    \A i \in DOMAIN eng.runs :
        /\ eng.runs[i].out.confidence.architecture_preserved
        /\ eng.runs[i].out.confidence.tests_passing
        /\ eng.runs[i].out.confidence.owasp_clean

\* An Adversarial run whose attacker returned findings has returned, and
\* the PipelineResult built from it reports owasp_clean.
C28_Witness ==
    /\ adv.pc = "done"
    /\ eng.pc = "returned"
    /\ Len(eng.runs) = 1
    /\ Truthy(Get(eng.runs[1].result, Key("attack")))
    /\ eng.runs[1].out.confidence.owasp_clean
    /\ eng.runs[1].out.confidence.tests_passing

(***************************************************************************)
(* One strategy instance executed twice, one run after the other           *)
(***************************************************************************)

\* The strategies run twice here.
TwiceStrategies ==
    {"adversarial", "consensus", "cognitive_mesh", "evolutionary",
     "pipeline", "verification_loop"}

\* The agents mappings the two runs are given: both hold the roles the
\* strategies look up; the second adds a specialist and orders the workers
\* differently.
TwiceAgentDicts ==
    {<<"claude", "codex", "dispatch">>,
     <<"dispatch", "ollama", "codex", "claude">>}

\* The attributes __init__ gives an instance of `strategy`; Consensus and
\* CognitiveMesh have no __init__ and their instances no attribute.
TwiceInstances(strategy) ==
    CASE strategy = "adversarial" -> [rounds : AdvRounds]
      [] strategy = "evolutionary" ->
            [population : 0..MaxPopulation, generations : 0..MaxGenerations]
      [] strategy = "pipeline" -> [include_specialist : BOOLEAN]
      [] strategy = "verification_loop" -> [iterations : 0..MaxIterations]
      [] strategy \in {"consensus", "cognitive_mesh"} -> {<<>>}

\* What a crossover call may answer in these runs: nothing, one candidate,
\* two candidates.
TwiceCrossoverOutputs == {<<>>, <<"x">>, <<"x", SEP, WS, "x">>}

\* A prompt, by what the f-string is made of: the call site (its fixed text
\* and the task), the numbers, the reply texts and the candidates formatted
\* into it.
Prompt(site, n, texts, items) ==
    [site |-> site, n |-> n, texts |-> texts, items |-> items]

\* The agents answer by a fixed function of the prompt.  The function is
\* disclosed call by call: `memo` holds the answers given so far, and a prompt
\* an agent has answered before gets the same answer again.
Answered(memo, agent, prompt) ==
    {k \in DOMAIN memo : /\ memo[k].agent = agent
                         /\ memo[k].prompt.site = prompt.site
                         /\ memo[k].prompt = prompt}

\* An agent that may answer the same prompt differently each time.
RepliesAnything(memo, agent, prompt, fresh) == fresh

Replies(memo, agent, prompt, fresh) ==
    IF Answered(memo, agent, prompt) # {}
    THEN {memo[k].reply : k \in Answered(memo, agent, prompt)}
    ELSE fresh

Remember(memo, agent, prompt, reply) ==
    IF Answered(memo, agent, prompt) # {} THEN memo
    ELSE Append(memo, [agent |-> agent, prompt |-> prompt, reply |-> reply])

\* execute left by the KeyError of a role the mapping lacks, before any call.
KeyErrorFrame == [pc |-> "raised", ret |-> "KeyError"]

\* The components the two runs leave alone.
twiceRest ==
    <<adv, evo, ver, mesh, eng, conf, fit, rtr, pipe, cons,
      hist, conc, rank, att, ser, store, cross, best, route, sync>>

\* ---- VerificationLoop.execute, as a frame of locals ----

\* The locals at the first await of VerificationLoop.execute.
TwiceVerEnter ==
    [pc |-> "code", i |-> 0, code_output |-> "", test_output |-> "",
     all_code |-> <<>>, all_tests |-> <<>>, ret |-> Idle]

\* The prompt awaited at each call site of VerificationLoop.execute.
TwiceVerPrompt(f, self) ==
    CASE f.pc = "code" -> Prompt("code", 0, <<>>, <<>>)
      [] f.pc = "test" -> Prompt("test", 0, <<f.code_output>>, <<>>)
      [] f.pc \in {"fix", "more_tests"} ->
            Prompt(f.pc, 0, <<f.code_output, f.test_output>>, <<>>)
      [] f.pc = "dispatch" ->
            Prompt("dispatch", self.iterations,
                   <<f.code_output, f.test_output>>, <<>>)

\* The head of `for i in range(1, self.iterations)` for the index `i`.
TwiceVerLoop(f, self, i) ==
    IF VerInRange(i, self.iterations)
    THEN [f EXCEPT !.i = i, !.pc = "fix"]
    ELSE [f EXCEPT !.pc = "dispatch"]

\* An execute that uses up the instance's iterations.
TwiceVerReturnSpending(t, out) ==
    [t EXCEPT !.self.iterations = 0,
              !.frame.pc = "done",
              !.frame.ret = [code_output |-> t.frame.code_output,
                             test_output |-> t.frame.test_output,
                             dispatch_output |-> out,
                             iterations |-> t.self.iterations,
                             code_versions |-> Len(t.frame.all_code),
                             test_versions |-> Len(t.frame.all_tests),
                             strategy |-> "verification_loop"]]

\* dispatch_output = await dispatch.execute(dispatch_prompt); return {...}
TwiceVerReturn(t, out) ==
    [t EXCEPT !.frame.pc = "done",
              !.frame.ret = [code_output |-> t.frame.code_output,
                             test_output |-> t.frame.test_output,
                             dispatch_output |-> out,
                             iterations |-> t.self.iterations,
                             code_versions |-> Len(t.frame.all_code),
                             test_versions |-> Len(t.frame.all_tests),
                             strategy |-> "verification_loop"]]

\* VerificationLoop.execute from the await at f.pc, answered `out`, to its
\* next await or its return.
TwiceVerResume(t, out) ==
    LET f == t.frame
    IN  CASE f.pc = "code" ->
               [t EXCEPT !.frame.code_output = out, !.frame.pc = "test"]
          [] f.pc = "test" ->
               [t EXCEPT !.frame =
                   TwiceVerLoop([f EXCEPT !.test_output = out,
                                          !.all_code = <<f.code_output>>,
                                          !.all_tests = <<out>>],
                                t.self, 1)]
          [] f.pc = "fix" ->
               [t EXCEPT !.frame.code_output = out,
                         !.frame.all_code = Append(@, out),
                         !.frame.pc = "more_tests"]
          [] f.pc = "more_tests" ->
               [t EXCEPT !.frame =
                   TwiceVerLoop([f EXCEPT !.test_output = out,
                                          !.all_tests = Append(@, out)],
                                t.self, f.i + 1)]
          [] f.pc = "dispatch" -> TwiceVerReturn(t, out)

\* ---- Evolutionary.execute, as a frame of locals ----

\* The head of `for gen in range(1, self.generations)` for the index `g`.
TwiceEvoLoop(f, self, g) ==
    IF g < self.generations
    THEN [f EXCEPT !.gen = g, !.pc = "fitness"]
    ELSE [f EXCEPT !.pc = "dispatch"]

\* `candidates = list(await asyncio.gather(*gen_tasks))`: the tasks start in
\* the order they were made and gather keeps each result at the position of
\* its task, so the candidates fill in task order; once all are there,
\* all_generations.append(list(candidates)) and the loop is entered.
TwiceEvoGather(f, self) ==
    IF Len(f.candidates) < self.population
    THEN [f EXCEPT !.pc = "gen0"]
    ELSE TwiceEvoLoop([f EXCEPT !.all_generations =
                                   Append(@, Len(f.candidates))],
                      self, 1)

\* The locals at the first await of Evolutionary.execute.
TwiceEvoEnter(self) ==
    TwiceEvoGather([pc |-> "gen0", gen |-> 0, candidates |-> <<>>,
                    all_generations |-> <<>>, fitness_output |-> "",
                    ret |-> Idle],
                   self)

\* The agent awaited at each call site of Evolutionary.execute; generation-0
\* task i goes to workers[i % len(workers)].
TwiceEvoCallee(f, agents) ==
    CASE f.pc = "gen0" ->
            Workers(agents)[(Len(f.candidates) % Len(Workers(agents))) + 1]
      [] f.pc = "fitness" -> Evaluator(agents)
      [] f.pc = "crossover" -> "claude"
      [] f.pc = "dispatch" -> "dispatch"

\* The prompt awaited at each call site of Evolutionary.execute.
TwiceEvoPrompt(f, self) ==
    CASE f.pc = "gen0" ->
            Prompt("gen0", Len(f.candidates) + 1,
                   <<Emphasis(Len(f.candidates))>>, <<>>)
      [] f.pc = "fitness" ->
            Prompt("fitness", Len(f.candidates), <<>>, f.candidates)
      [] f.pc = "crossover" ->
            Prompt("crossover", self.population, <<f.fitness_output>>,
                   f.candidates)
      [] f.pc = "dispatch" -> Prompt("dispatch", 0, <<>>, f.candidates)

\* What the agent called at f.pc may answer to a prompt it has not seen.
TwiceEvoFresh(f) ==
    CASE f.pc = "gen0" -> GenTexts
      [] f.pc = "crossover" -> TwiceCrossoverOutputs
      [] f.pc \in {"fitness", "dispatch"} -> Texts

\* dispatch_output = await dispatch.execute(final_prompt); return {...}
TwiceEvoReturn(t, out) ==
    [t EXCEPT !.frame.pc = "done",
              !.frame.ret =
                  [candidates |-> t.frame.candidates,
                   generations |-> Len(t.frame.all_generations),
                   population |-> t.self.population,
                   dispatch_output |-> out,
                   total_candidates_evaluated |-> Sum(t.frame.all_generations),
                   strategy |-> "evolutionary"]]

\* Evolutionary.execute from the await at f.pc, answered `out`, to its next
\* await or its return.
TwiceEvoResume(t, out) ==
    LET f == t.frame
    IN  CASE f.pc = "gen0" ->
               [t EXCEPT !.frame =
                   TwiceEvoGather([f EXCEPT !.candidates = Append(@, out)],
                                  t.self)]
          [] f.pc = "fitness" ->
               [t EXCEPT !.frame.fitness_output = out,
                         !.frame.pc = "crossover"]
          [] f.pc = "crossover" ->
               LET new == NewGeneration(out, t.self.population)
               IN  [t EXCEPT !.frame =
                       TwiceEvoLoop([f EXCEPT !.candidates = new,
                                              !.all_generations =
                                                  Append(@, Len(new))],
                                    t.self, f.gen + 1)]
          [] f.pc = "dispatch" -> TwiceEvoReturn(t, out)

\* ---- Adversarial.execute, as a frame of locals ----

\* The locals at the first await of Adversarial.execute.
TwiceAdvEnter(agents) ==
    IF AdvRequired \subseteq Range(agents)
    THEN [pc |-> "build", round_num |-> 0, build_output |-> "",
          attack_output |-> "", fuzz_output |-> "",
          all_attacks |-> <<>>, all_fuzzes |-> <<>>, ret |-> Idle]
    ELSE KeyErrorFrame

\* The prompt awaited at each call site of Adversarial.execute.
TwiceAdvPrompt(f) ==
    LET p == AdvPrompt(f)
    IN  Prompt(f.pc, Len(p.attacks), <<p.code>> \o p.attacks \o p.fuzzes,
               <<>>)

\* The head of `for round_num in range(self.rounds)` for the index `r`.
TwiceAdvLoop(f, self, r) ==
    IF r < self.rounds
    THEN [f EXCEPT !.round_num = r, !.pc = "attack"]
    ELSE [f EXCEPT !.pc = "dispatch"]

\* dispatch_output = await dispatch.execute(dispatch_prompt); return {...}
TwiceAdvReturn(t, out) ==
    [t EXCEPT !.frame.pc = "done",
              !.frame.ret = [build_output |-> t.frame.build_output,
                             attack_output |-> t.frame.attack_output,
                             fuzz_output |-> t.frame.fuzz_output,
                             dispatch_output |-> out,
                             rounds |-> t.self.rounds,
                             total_attacks |-> Len(t.frame.all_attacks),
                             strategy |-> "adversarial"]]

\* Adversarial.execute from the await at f.pc, answered `out`, to its next
\* await or its return.
TwiceAdvResume(t, out) ==
    LET f == t.frame
    IN  CASE f.pc = "build" ->
               [t EXCEPT !.frame =
                   TwiceAdvLoop([f EXCEPT !.build_output = out], t.self, 0)]
          [] f.pc = "attack" ->
               [t EXCEPT !.frame.attack_output = out,
                         !.frame.all_attacks = Append(@, out),
                         !.frame.pc = "fuzz"]
          [] f.pc = "fuzz" ->
               LET a == [f EXCEPT !.fuzz_output = out,
                                  !.all_fuzzes = Append(@, out)]
               IN  [t EXCEPT !.frame =
                       IF FixGate(a.round_num, t.self.rounds)
                       THEN [a EXCEPT !.pc = "fix"]
                       ELSE TwiceAdvLoop(a, t.self, a.round_num + 1)]
          [] f.pc = "fix" ->
               [t EXCEPT !.frame =
                   TwiceAdvLoop([f EXCEPT !.build_output = out], t.self,
                                f.round_num + 1)]
          [] f.pc = "dispatch" -> TwiceAdvReturn(t, out)

\* ---- Pipeline.execute, as a frame of locals ----

\* The locals at the first await of Pipeline.execute.
TwicePipeEnter(agents) ==
    IF PipeRequired \subseteq Range(agents)
    THEN [pc |-> "architect", architect_output |-> <<>>,
          build_output |-> <<>>, specialist_output |-> <<>>, ret |-> Idle]
    ELSE KeyErrorFrame

\* The agent awaited at each call site of Pipeline.execute.
TwicePipeCallee(f) ==
    CASE f.pc = "architect" -> "claude"
      [] f.pc = "build" -> "codex"
      [] f.pc = "specialist" -> "ollama"
      [] f.pc = "dispatch" -> "dispatch"

\* The prompt awaited at each call site of Pipeline.execute.
TwicePipePrompt(f) ==
    Prompt(f.pc, 0, <<>>,
           <<CASE f.pc = "architect" -> ArchitectPrompt(PipeTask)
               [] f.pc = "build" -> BuildPrompt(f.architect_output)
               [] f.pc = "specialist" ->
                     SpecialistPrompt(PipeTask, f.architect_output,
                                      f.build_output)
               [] f.pc = "dispatch" ->
                     DispatchInput(PipeTask, f.architect_output,
                                   f.build_output, f.specialist_output)>>)

\* dispatch_output = await dispatch.execute(dispatch_input); return {...}
TwicePipeReturn(t, out) ==
    [t EXCEPT !.frame.pc = "done",
              !.frame.ret = [architect_output |-> t.frame.architect_output,
                             build_output |-> t.frame.build_output,
                             specialist_output |-> t.frame.specialist_output,
                             dispatch_output |-> out,
                             stages_run |-> StagesRun(t.frame),
                             strategy |-> "pipeline"]]

\* Pipeline.execute from the await at f.pc, answered `out`, to its next await
\* or its return.
TwicePipeResume(t, out) ==
    LET f == t.frame
    IN  CASE f.pc = "architect" ->
               [t EXCEPT !.frame.architect_output = out, !.frame.pc = "build"]
          [] f.pc = "build" ->
               [t EXCEPT !.frame.build_output = out,
                         !.frame.specialist_output = <<>>,
                         !.frame.pc = IF t.self.include_specialist
                                         /\ "ollama" \in Range(t.agents)
                                      THEN "specialist" ELSE "dispatch"]
          [] f.pc = "specialist" ->
               [t EXCEPT !.frame.specialist_output = out,
                         !.frame.pc = "dispatch"]
          [] f.pc = "dispatch" -> TwicePipeReturn(t, out)

\* ---- Consensus.execute, as a frame of locals ----

\* The locals once both coroutines are made and gather has started the
\* first; a missing "claude" or "codex" raises KeyError before.
TwiceConsEnter(agents) ==
    IF {"claude", "codex"} \subseteq Range(agents)
    THEN [pc |-> "claude", claude_output |-> "", codex_output |-> "",
          ret |-> Idle]
    ELSE KeyErrorFrame

\* The prompt of each call of Consensus.execute: claude and codex get the
\* same one.
TwiceConsPrompt(f) ==
    IF f.pc = "dispatch"
    THEN Prompt("dispatch", 0, <<f.claude_output, f.codex_output>>, <<>>)
    ELSE Prompt("generate", 0, <<>>, <<>>)

\* return {...}
TwiceConsReturn(t, out) ==
    [t EXCEPT !.frame.pc = "done",
              !.frame.ret = [claude_output |-> t.frame.claude_output,
                             codex_output |-> t.frame.codex_output,
                             dispatch_output |-> out,
                             strategy |-> "consensus"]]

\* `claude_output, codex_output = await asyncio.gather(claude_task,
\* codex_task)`: the coroutines start in this order and each output is the
\* answer to its own call; agents["dispatch"] is looked up after them.
TwiceConsResume(t, out) ==
    LET f == t.frame
    IN  CASE f.pc = "claude" ->
               [t EXCEPT !.frame.claude_output = out, !.frame.pc = "codex"]
          [] f.pc = "codex" ->
               IF "dispatch" \in Range(t.agents)
               THEN [t EXCEPT !.frame.codex_output = out,
                              !.frame.pc = "dispatch"]
               ELSE [t EXCEPT !.frame = KeyErrorFrame]
          [] f.pc = "dispatch" -> TwiceConsReturn(t, out)

\* ---- CognitiveMesh.execute, as a frame of locals ----

\* `results = dict(zip(tasks.keys(), await asyncio.gather(*tasks.values())))`:
\* the workers are called in the order of the mapping and gather keeps each
\* output at the position of its call, so the results fill in that order.
TwiceMeshGather(f, agents) ==
    IF Len(f.results) < Len(MeshWorkers(agents))
    THEN [f EXCEPT !.pc = "gather"]
    ELSE [f EXCEPT !.pc = "dispatch"]

\* The locals at the first await of CognitiveMesh.execute.
TwiceMeshEnter(agents) ==
    IF "dispatch" \in Range(agents)
    THEN TwiceMeshGather([pc |-> "gather", results |-> <<>>, ret |-> Idle],
                         agents)
    ELSE KeyErrorFrame

\* The agent awaited at each call site of CognitiveMesh.execute.
TwiceMeshCallee(f, agents) ==
    IF f.pc = "gather" THEN MeshWorkers(agents)[Len(f.results) + 1]
    ELSE "dispatch"

\* The prompt of each call of CognitiveMesh.execute: every worker gets the
\* same one; the merge prompt names each worker before its output.
TwiceMeshPrompt(f) ==
    IF f.pc = "gather" THEN Prompt("generate", 0, <<>>, <<>>)
    ELSE Prompt("dispatch", Len(f.results),
                [i \in 1..(2 * Len(f.results)) |->
                    f.results[(i + 1) \div 2][2 - (i % 2)]],
                <<>>)

\* return {**{f"{name}_output": output ...}, ...}
TwiceMeshReturn(t, out) ==
    [t EXCEPT !.frame.pc = "done",
              !.frame.ret = [outputs |-> [i \in DOMAIN t.frame.results |->
                                            <<Key(t.frame.results[i][1]),
                                              t.frame.results[i][2]>>],
                             dispatch_output |-> out,
                             agents_consulted |-> Len(t.frame.results),
                             strategy |-> "cognitive_mesh"]]

\* CognitiveMesh.execute from the await at f.pc, answered `out`, to its next
\* await or its return.
TwiceMeshResume(t, out) ==
    LET f == t.frame
    IN  IF f.pc = "gather"
        THEN [t EXCEPT !.frame =
                 TwiceMeshGather(
                     [f EXCEPT !.results =
                         Append(@, <<TwiceMeshCallee(f, t.agents), out>>)],
                     t.agents)]
        ELSE TwiceMeshReturn(t, out)

\* ---- the two runs ----

\* The frame of a call of strategy.execute(task, agents).
TwiceEnter(strategy, self, agents) ==
    CASE strategy = "adversarial" -> TwiceAdvEnter(agents)
      [] strategy = "consensus" -> TwiceConsEnter(agents)
      [] strategy = "cognitive_mesh" -> TwiceMeshEnter(agents)
      [] strategy = "evolutionary" -> TwiceEvoEnter(self)
      [] strategy = "pipeline" -> TwicePipeEnter(agents)
      [] strategy = "verification_loop" -> TwiceVerEnter

\* The agent, the prompt and the possible first answers of the call the run
\* is about to await.
TwiceCallee(t) ==
    CASE t.strategy = "adversarial" -> AdvCallee(t.frame.pc)
      [] t.strategy = "consensus" -> t.frame.pc
      [] t.strategy = "cognitive_mesh" -> TwiceMeshCallee(t.frame, t.agents)
      [] t.strategy = "evolutionary" -> TwiceEvoCallee(t.frame, t.agents)
      [] t.strategy = "pipeline" -> TwicePipeCallee(t.frame)
      [] t.strategy = "verification_loop" -> VerCallee(t.frame)

TwicePrompt(t) ==
    CASE t.strategy = "adversarial" -> TwiceAdvPrompt(t.frame)
      [] t.strategy = "consensus" -> TwiceConsPrompt(t.frame)
      [] t.strategy = "cognitive_mesh" -> TwiceMeshPrompt(t.frame)
      [] t.strategy = "evolutionary" -> TwiceEvoPrompt(t.frame, t.self)
      [] t.strategy = "pipeline" -> TwicePipePrompt(t.frame)
      [] t.strategy = "verification_loop" -> TwiceVerPrompt(t.frame, t.self)

TwiceFresh(t) ==
    CASE t.strategy = "evolutionary" -> TwiceEvoFresh(t.frame)
      [] t.strategy = "pipeline" -> PipeTexts
      [] OTHER -> Texts

\* The run from the await it is at, answered `out`, to its next await or its
\* return.
TwiceResume(t, out) ==
    CASE t.strategy = "adversarial" -> TwiceAdvResume(t, out)
      [] t.strategy = "consensus" -> TwiceConsResume(t, out)
      [] t.strategy = "cognitive_mesh" -> TwiceMeshResume(t, out)
      [] t.strategy = "evolutionary" -> TwiceEvoResume(t, out)
      [] t.strategy = "pipeline" -> TwicePipeResume(t, out)
      [] t.strategy = "verification_loop" -> TwiceVerResume(t, out)

\* An instance is constructed, an agents mapping is built, and the first
\* execute is called.  `given` keeps the attributes and the mapping as they
\* were before the first call.
TwiceInit ==
    \E strategy \in TwiceStrategies, ag \in TwiceAgentDicts :
      \E self \in TwiceInstances(strategy) :
        twice = [strategy |-> strategy, self |-> self, agents |-> ag,
                 given |-> [self |-> self, agents |-> ag],
                 memo |-> <<>>, calls |-> <<>>, runs |-> <<>>,
                 frame |-> TwiceEnter(strategy, self, ag)]

\* One awaited agent call and the code of execute up to the next await: the
\* agent answers as it answered this prompt before, or, to a prompt it has
\* not seen, with any text.
TwiceCall ==
    /\ UNCHANGED twiceRest
    /\ twice.frame.pc \notin {"done", "raised", "finished"}
    /\ LET agent == TwiceCallee(twice)
           prompt == TwicePrompt(twice)
       IN  \E out \in Replies(twice.memo, agent, prompt, TwiceFresh(twice)) :
             twice' = [TwiceResume(twice, out) EXCEPT
                         !.memo = Remember(@, agent, prompt, out),
                         !.calls = Append(@, [agent |-> agent,
                                              prompt |-> prompt])]

\* execute has returned or raised; its caller keeps the outcome and the
\* calls the agents saw, and after the first run calls execute again on the
\* same instance with the same mapping.
TwiceReturn ==
    /\ UNCHANGED twiceRest
    /\ twice.frame.pc \in {"done", "raised"}
    /\ twice' = [twice EXCEPT
                   !.runs = Append(@, [ret |-> twice.frame.ret,
                                       calls |-> twice.calls]),
                   !.calls = <<>>,
                   !.frame = IF Len(twice.runs) = 0
                             THEN TwiceEnter(twice.strategy, twice.self,
                                             twice.agents)
                             ELSE [pc |-> "finished"]]

NextTwice == TwiceCall \/ TwiceReturn

InitTwice ==
    /\ sync = Idle
    /\ route = Idle
    /\ best = Idle
    /\ cross = Idle
    /\ TwiceInit
    /\ adv = Idle /\ evo = Idle /\ ver = Idle /\ mesh = Idle
    /\ eng = Idle /\ conf = Idle /\ fit = Idle /\ rtr = Idle
    /\ pipe = Idle /\ cons = Idle /\ hist = Idle /\ conc = Idle
    /\ rank = Idle /\ att = Idle /\ ser = Idle /\ store = Idle

SpecTwice == InitTwice /\ [][NextTwice]_vars

\* C29: no strategy other than AdaptiveRouter keeps state across execute
\* calls.  Whatever fixed function of the prompt the agents answer by,
\* execute leaves the instance's parameters and the agents mapping as they
\* were given, the second run makes the calls of the first in the same order
\* (same agent, same prompt), and it returns the same result mapping.
C29_SecondRunIdentical ==
    /\ twice.self = twice.given.self
    /\ twice.agents = twice.given.agents
    /\ Len(twice.runs) = 1 =>
          /\ Len(twice.calls) <= Len(twice.runs[1].calls)
          /\ \A k \in DOMAIN twice.calls :
                twice.calls[k] = twice.runs[1].calls[k]
    /\ Len(twice.runs) = 2 =>
          /\ twice.runs[2].calls = twice.runs[1].calls
          /\ twice.runs[2].ret = twice.runs[1].ret

\* An Evolutionary instance of two candidates and three generations has run
\* twice: each run made seven calls, no two of them with the same agent and
\* prompt, and returned two non-empty candidates.
C29_Witness ==
    /\ twice.strategy = "evolutionary"
    /\ twice.self = [population |-> 2, generations |-> 3]
    /\ Len(twice.runs) = 2
    /\ Len(twice.runs[1].calls) = 7
    /\ Len(twice.memo) = 7
    /\ twice.runs[2].ret.candidates = <<<<"x">>, <<"x">>>>
    /\ twice.runs[2].ret.total_candidates_evaluated = 6

(***************************************************************************)
(* The order of the calls of VerificationLoop.execute                      *)
(***************************************************************************)

\* The role the claim gives call k of a run, the dispatch call apart: calls
\* 1 and 2 are iteration 0 (claude codes, codex tests); calls 2i+1 and 2i+2
\* are the fix and the additional tests of iteration i >= 1.
RoleOfCall(k) ==
    LET i == (k - 1) \div 2
        fix == k % 2 = 1
    IN  IF i = 0 THEN (IF fix THEN "claude" ELSE "codex")
        ELSE IF i % 2 = 1 THEN (IF fix THEN "codex" ELSE "claude")
        ELSE (IF fix THEN "claude" ELSE "codex")

\* C31: iteration 0 has claude write the code and then codex the tests; in
\* every iteration i >= 1 the fixer is codex for odd i and claude for even i,
\* the additional tests are written by the other role after the fix, and no
\* iteration gives both calls to one role; the dispatch call comes last.
C31_RolesAlternate ==
    /\ \A k \in DOMAIN ver.calls :
          IF ver.calls[k] = "dispatch"
          THEN k = Len(ver.calls) /\ k % 2 = 1
          ELSE ver.calls[k] = RoleOfCall(k)
    /\ \A k \in DOMAIN ver.calls :
          (k % 2 = 0) => ver.calls[k] # ver.calls[k - 1]
    /\ ver.pc = "more_tests" => Len(ver.calls) = 2 * ver.i + 1
    /\ ver.pc = "fix" => Len(ver.calls) = 2 * ver.i

\* A run of three iterations has returned: codex fixed in iteration 1 and
\* claude in iteration 2.
C31_Witness ==
    /\ ver.pc = "done"
    /\ ver.iterations = 3
    /\ ver.calls = <<"claude", "codex", "codex", "claude", "claude", "codex",
                     "dispatch">>

(***************************************************************************)
(* One crossover reply made into the next generation                       *)
(***************************************************************************)

MaxReplyLen == 4
MaxCrossPopulation == 3

\* What the crossover call may answer here: texts of two kinds of code
\* character, whitespace and separators, so that candidates can differ.
CrossTokens == {"x", "y", WS, SEP}
CrossReplies == UNION {[1..n -> CrossTokens] : n \in 0..MaxReplyLen}

\* The generation the crossover prompt was made of: `population` candidates
\* that no reply contains.
PreviousGeneration(population) == [i \in 1..population |-> <<"p">>]

\* The components the crossover step leaves alone.
crossRest ==
    <<adv, evo, ver, mesh, eng, conf, fit, rtr, pipe, cons,
      hist, conc, rank, att, ser, store, twice, best, route, sync>>

\* Evolutionary.execute awaits claude.execute(crossover_prompt).
CrossInit ==
    \E p \in 0..MaxCrossPopulation :
        cross = [pc |-> "crossover", population |-> p,
                 candidates |-> PreviousGeneration(p),
                 crossover_output |-> <<>>]

\* crossover_output = await claude.execute(crossover_prompt); the candidates
\* are parsed from it, padded and truncated.
CrossReturn ==
    /\ UNCHANGED crossRest
    /\ cross.pc = "crossover"
    /\ \E out \in CrossReplies :
        cross' = [cross EXCEPT
                    !.crossover_output = out,
                    !.candidates = NewGeneration(out, cross.population),
                    !.pc = "appended"]

NextCross == CrossReturn

InitCross ==
    /\ sync = Idle
    /\ route = Idle
    /\ best = Idle
    /\ CrossInit
    /\ adv = Idle /\ evo = Idle /\ ver = Idle /\ mesh = Idle
    /\ eng = Idle /\ conf = Idle /\ fit = Idle /\ rtr = Idle
    /\ pipe = Idle /\ cons = Idle /\ hist = Idle /\ conc = Idle
    /\ rank = Idle /\ att = Idle /\ ser = Idle /\ store = Idle
    /\ twice = Idle

SpecCross == InitCross /\ [][NextCross]_vars

\* The non-empty candidates a reply holds, in the order it holds them.
ReturnedCandidates(out) == ParseCandidates(Split(out))

\* The generation the padding and truncation policy makes of `returned`.
PolicyOf(returned, population) ==
    LET k == Len(returned)
    IN  IF k >= population THEN [i \in 1..population |-> returned[i]]
        ELSE IF k > 0
             THEN [i \in 1..population |->
                      IF i <= k THEN returned[i] ELSE returned[k]]
             ELSE [i \in 1..population |-> <<>>]

\* C32: after a crossover reply holding k non-empty candidates, with
\* population P, the new generation is the first P of them in their order if
\* k >= P, the k of them followed by P - k copies of the last if 0 < k < P,
\* and P empty strings if k = 0; nothing of the previous generation is kept.
C32_PadAndTruncate ==
    cross.pc = "appended" =>
        /\ cross.candidates =
              PolicyOf(ReturnedCandidates(cross.crossover_output),
                       cross.population)
        /\ \A i \in DOMAIN cross.candidates :
              cross.candidates[i] \notin Range(PreviousGeneration(1))

\* A reply with the candidates "y" and "x" for a population of three: the
\* generation is y, x, x.
C32_Witness ==
    /\ cross.pc = "appended"
    /\ cross.population = 3
    /\ ReturnedCandidates(cross.crossover_output) = <<<<"y">>, <<"x">>>>
    /\ cross.candidates = <<<<"y">>, <<"x">>, <<"x">>>>

(***************************************************************************)
(* The calls of Evolutionary.execute, for populations larger than the      *)
(* number of workers and than the number of traits                         *)
(***************************************************************************)

MaxWidePopulation == 4

\* Evolutionary(population, generations).execute is called with a mapping
\* that holds the roles it looks up: two workers, or three with a specialist.
EvoWideInit ==
    \E p \in 0..MaxWidePopulation, g \in 0..MaxGenerations,
       ag \in TwiceAgentDicts :
        evo = EvoEntered(p, g, ag)

InitEvoWide ==
    /\ sync = Idle
    /\ route = Idle
    /\ best = Idle
    /\ EvoWideInit
    /\ adv = Idle /\ ver = Idle /\ mesh = Idle
    /\ eng = Idle /\ conf = Idle /\ fit = Idle /\ rtr = Idle
    /\ pipe = Idle /\ cons = Idle /\ hist = Idle /\ conc = Idle
    /\ rank = Idle /\ att = Idle /\ ser = Idle /\ store = Idle
    /\ twice = Idle /\ cross = Idle

SpecEvoWide == InitEvoWide /\ [][NextEvo]_vars

\* The traits in the order of the index modulo 3.
Traits == <<"performance", "readability", "robustness">>

\* The P generation-0 calls: candidate i (from 0) goes to worker i mod W.
GenerationZeroCalls(e) ==
    LET workers == SelectSeq(e.agents, LAMBDA k : k # "dispatch")
    IN  [i \in 1..e.population |-> workers[((i - 1) % Len(workers)) + 1]]

\* n times an evaluator call followed by a crossover call to claude.
LaterGenerationCalls(e, n) ==
    [k \in 1..(2 * n) |->
        IF k % 2 = 0 THEN "claude"
        ELSE IF "ollama" \in Range(e.agents) THEN "ollama" ELSE "codex"]

\* The calls and the counts of a run that reports `g` generations.
EvoRunOf(e, g) ==
    /\ e.pc \in {"gather", "fitness", "crossover", "dispatch", "done"} =>
          /\ Len(e.calls) >= e.population
          /\ SubSeq(e.calls, 1, e.population) = GenerationZeroCalls(e)
          /\ \A i \in 1..e.population :
                /\ e.variants[i].number = i
                /\ e.variants[i].emphasis = Traits[((i - 1) % 3) + 1]
    /\ e.pc = "gather" => e.calls = GenerationZeroCalls(e)
    /\ e.pc = "done" =>
          /\ e.calls = GenerationZeroCalls(e)
                          \o LaterGenerationCalls(e, IF g > 1 THEN g - 1 ELSE 0)
                          \o <<"dispatch">>
          /\ e.ret.generations = g
          /\ e.ret.total_candidates_evaluated = e.population * g

\* C33 (as stated): the P generation-0 calls are issued together, candidate i
\* to worker i mod W with the trait of i mod 3; each of the G - 1 later
\* generations makes one evaluator call and then one crossover call to
\* claude; one dispatch call ends the run; the result reports generations = G
\* and total_candidates_evaluated = P * G, for every G >= 0.
C33_CallsAndCounts == EvoRunOf(evo, evo.generations)

\* C33 (amended): the same, the result reporting generations = G and
\* total_candidates_evaluated = P * G for G >= 1, and generations = 1 and
\* total_candidates_evaluated = P for G = 0 (generation 0 always runs).
C33_CallsAndCountsAmended ==
    EvoRunOf(evo, IF evo.generations >= 1 THEN evo.generations ELSE 1)

\* A run of four candidates and three generations on three workers has
\* returned: the fourth candidate went to the first worker again, with the
\* first trait again.
C33_Witness ==
    /\ evo.pc = "done"
    /\ evo.population = 4
    /\ evo.generations = 3
    /\ evo.calls = <<"ollama", "codex", "claude", "ollama",
                     "ollama", "claude", "ollama", "claude", "dispatch">>
    /\ evo.variants[3].emphasis = "robustness"
    /\ evo.variants[4].emphasis = "performance"
    /\ evo.ret.total_candidates_evaluated = 12

(***************************************************************************)
(* RoutingHistory.best_strategy_for on histories of three records          *)
(***************************************************************************)

MaxRecords == 3

\* The components the history asked leaves alone.
bestRest ==
    <<adv, evo, ver, mesh, eng, conf, fit, rtr, pipe, cons,
      hist, conc, rank, att, ser, store, twice, cross, route, sync>>

\* The outcome scores recorded here: 0.1, 0.4 and 0.7, in tenths.
BestScores == {1, 4, 7}

\* RoutingHistory(path) on a path without file; `asked` holds the latest
\* best_strategy_for call and its result.
BestInit == best = [history |-> <<>>, asked |-> <<>>]

\* RoutingHistory.record(task, strategy, score)
BestRecord ==
    /\ UNCHANGED bestRest
    /\ Len(best.history) < MaxRecords
    /\ \E task \in RouterTasks, strategy \in RecordedStrategies,
          score \in BestScores :
        best' = [best EXCEPT
                   !.history = Append(@, HistEntry(task, strategy, score)),
                   !.asked = <<>>]

\* RoutingHistory.best_strategy_for(task)
BestAsk ==
    /\ UNCHANGED bestRest
    /\ \E task \in RouterTasks :
        best' = [best EXCEPT
                   !.asked = <<[task |-> task,
                                result |-> BestStrategyFor(best.history,
                                                           task)]>>]

NextBest == BestRecord \/ BestAsk

InitBest ==
    /\ sync = Idle
    /\ route = Idle
    /\ BestInit
    /\ adv = Idle /\ evo = Idle /\ ver = Idle /\ mesh = Idle
    /\ eng = Idle /\ conf = Idle /\ fit = Idle /\ rtr = Idle
    /\ pipe = Idle /\ cons = Idle /\ hist = Idle /\ conc = Idle
    /\ rank = Idle /\ att = Idle /\ ser = Idle /\ store = Idle
    /\ twice = Idle /\ cross = Idle

SpecBest == InitBest /\ [][NextBest]_vars

\* The records of the history that share a signal category with the task.
RecordsFor(task) ==
    {k \in DOMAIN best.history :
        \E sig \in Range(ExtractSignals(task)) :
            sig \in Range(best.history[k].task_signals)}

\* The records among `ks` that name the strategy `s`.
RecordsOf(ks, s) == {k \in ks : best.history[k].strategy = s}

\* The sum of the scores of the records `ks`.
RECURSIVE TotalScore(_)
TotalScore(ks) ==
    IF ks = {} THEN 0
    ELSE LET k == CHOOSE k \in ks : TRUE
         IN  best.history[k].score + TotalScore(ks \ {k})

\* The scores of the records `ks`, in the order they were recorded.
ScoresIn(ks) ==
    LET of == SelectSeq([k \in DOMAIN best.history |-> k],
                        LAMBDA k : k \in ks)
    IN  [i \in DOMAIN of |-> best.history[of[i]].score]

\* The average of s over ks is at least that of t, as rational numbers; both
\* have records in ks.
AtLeastAverage(ks, s, t) ==
    TotalScore(RecordsOf(ks, s)) * Cardinality(RecordsOf(ks, t))
        >= TotalScore(RecordsOf(ks, t)) * Cardinality(RecordsOf(ks, s))

\* The same on the averages computed in floating point.
AtLeastComputedAverage(ks, s, t) ==
    LET left == TotalScore(RecordsOf(ks, s)) * Cardinality(RecordsOf(ks, t))
        right == TotalScore(RecordsOf(ks, t)) * Cardinality(RecordsOf(ks, s))
    IN  \/ left > right
        \/ /\ left = right
           /\ FloatOffset(ScoresIn(RecordsOf(ks, s)))
                 >= FloatOffset(ScoresIn(RecordsOf(ks, t)))

\* The position of the first record in ks that names s.
FirstRecord(ks, s) ==
    CHOOSE k \in RecordsOf(ks, s) : \A j \in RecordsOf(ks, s) : k <= j

\* The averages compared as numbers, or as computed (`computed` is TRUE).
AtLeast(ks, s, t, computed) ==
    IF computed THEN AtLeastComputedAverage(ks, s, t)
    ELSE AtLeastAverage(ks, s, t)

\* The answer of the latest call is None without a category or a record
\* sharing one, else the strategy no other strategy beats on average, ties
\* going to the strategy whose first such record is the earliest.
BestAnswer(computed) ==
    \A i \in DOMAIN best.asked :
        LET task == best.asked[i].task
            result == best.asked[i].result
            ks == RecordsFor(task)
            names == {best.history[k].strategy : k \in ks}
        IN  IF ExtractSignals(task) = <<>> \/ ks = {}
            THEN result = NoStrategy
            ELSE /\ result \in names
                 /\ \A t \in names \ {result} :
                       /\ AtLeast(ks, result, t, computed)
                       /\ AtLeast(ks, t, result, computed) =>
                             FirstRecord(ks, result) < FirstRecord(ks, t)

\* C34 (as stated): best_strategy_for(task) returns None when the task
\* matches no signal category or no record shares a category with it;
\* otherwise it returns the strategy with the highest average score over the
\* records that share a category with the task, and on equal averages the
\* strategy that was recorded first.
C34_BestAverageFirstRecorded == BestAnswer(FALSE)

\* C34 (amended): the same, the averages being the floating-point values
\* sum(scores) / len(scores): averages that are equal as numbers can differ
\* by a rounding error, and then the strategy whose computed average is the
\* higher one is returned whichever was recorded first.
C34_BestComputedAverage == BestAnswer(TRUE)

\* consensus was recorded with 0.1 and 0.7 and then adversarial with 0.4 for
\* a security task: the averages are both 0.4, the computed average of
\* consensus is 0.39999999999999997, and the history answers adversarial.
C34_Witness ==
    /\ Len(best.history) = 3
    /\ \A k \in 1..3 : best.history[k].task_signals = <<"security">>
    /\ ScoresOf(best.history, "consensus") = <<1, 7>>
    /\ best.history[3] = HistEntry(<<"F", "i", "x", " ", "a", "u", "t", "h">>,
                                   "adversarial", 4)
    /\ best.asked # <<>>
    /\ best.asked[1].task = <<"F", "i", "x", " ", "a", "u", "t", "h">>
    /\ best.asked[1].result = "adversarial"

\* ---------------------------------------------------------------------
\* The dispatch call of every strategy
\* ---------------------------------------------------------------------

\* The calls of strategy k that were issued and have not returned: only the
\* gathered calls of Evolutionary, CognitiveMesh and Consensus overlap.
PendingCalls(k) ==
    CASE k = 2 -> {i \in DOMAIN evo.results :
                      evo.pc = "gather" /\ evo.results[i] = Pending}
      [] k \in {4, 6} -> IF Strategies[k].pc = "gather"
                         THEN InFlight(Strategies[k]) ELSE {}
      [] OTHER -> {}

\* Once the run `s` has called dispatch, its next state `t` has no further call.
NoCallAfterDispatch(s, t) ==
    CallsTo(s.calls, "dispatch") > 0 => t.calls = s.calls

\* C35: in every strategy a successful execute invokes the 'dispatch' agent
\* exactly once, and that call is the last agent invocation of the run: no
\* generator, attacker, fuzzer, fixer or evaluator call starts or is still
\* pending after dispatch has been issued.
C35_DispatchOnceAndLast ==
    /\ [](\A k \in DOMAIN Strategies :
            LET s == Strategies[k]
            IN  s.pc # "off" =>
                  /\ s.pc = "done" => CallsTo(s.calls, "dispatch") = 1
                  /\ CallsTo(s.calls, "dispatch") > 0 =>
                        /\ CallsTo(s.calls, "dispatch") = 1
                        /\ s.calls[Len(s.calls)] = "dispatch"
                        /\ PendingCalls(k) = {})
    /\ [][/\ NoCallAfterDispatch(adv, adv')
          /\ NoCallAfterDispatch(evo, evo')
          /\ NoCallAfterDispatch(ver, ver')
          /\ NoCallAfterDispatch(mesh, mesh')
          /\ NoCallAfterDispatch(pipe, pipe')
          /\ NoCallAfterDispatch(cons, cons')]_vars

\* An Evolutionary run of two candidates and two generations returned: the
\* two gathered calls, the evaluator, the crossover, then dispatch.
C35_Witness ==
    /\ evo.pc = "done"
    /\ evo.population = 2
    /\ evo.generations = 2
    /\ Len(evo.calls) = 5
    /\ evo.calls[5] = "dispatch"
    /\ CallsTo(evo.calls, "dispatch") = 1

\* ---------------------------------------------------------------------
\* Termination of execute and the number of agent calls
\* ---------------------------------------------------------------------

\* How far strategy k has come: its position, the calls it has issued and
\* the gathered or awaited calls that came back.  Every step changes it.
Position(k) ==
    LET s == Strategies[k]
    IN  IF s.pc = "off" THEN <<"off", 0, 0>>
        ELSE <<s.pc, Len(s.calls),
               CASE k = 2 -> Cardinality(DOMAIN evo.results \ PendingCalls(2))
                 [] k = 4 -> Len(mesh.completions)
                 [] k = 5 -> IF pipe.waiting THEN 1 ELSE 0
                 [] k = 6 -> Len(cons.completions) + Len(cons.tasks)
                                + (IF cons.waiting THEN 1 ELSE 0)
                 [] OTHER -> 0>>

progress == <<[k \in DOMAIN Strategies |-> Position(k)], eng.pc>>

\* Every awaited call returns or raises and every step execute can take is
\* taken: the event loop runs the coroutine whenever it can go on.  The runs
\* are those on the agent sets without and with 'ollama'.
InitStrategiesFair ==
    /\ sync = Idle
    /\ route = Idle
    /\ InitStrategies
    /\ Running.agents \in TwiceAgentDicts

SpecStrategiesFair ==
    InitStrategiesFair /\ [][NextStrategies]_vars /\ WF_progress(NextStrategies)

\* execute has returned or raised.
Terminated == Running.pc \in {"done", "raised"}

\* The calls of a returned run of strategy k, from its parameters and agents.
ExpectedCalls(k) ==
    CASE k = 1 -> 3 * adv.rounds + 1
      [] k = 2 -> evo.population + 2 * (evo.generations - 1) + 1
      [] k = 3 -> 2 * ver.iterations + 1
      [] k = 4 -> Len(MeshWorkers(mesh.agents)) + 1
      [] k = 5 -> IF pipe.include_specialist /\ "ollama" \in Range(pipe.agents)
                  THEN 4 ELSE 3
      [] k = 6 -> 3

\* The parameter the claim bounds from below, 1 where there is none.
LoopParameter(k) ==
    CASE k = 1 -> adv.rounds
      [] k = 2 -> evo.generations
      [] k = 3 -> ver.iterations
      [] OTHER -> 1

\* C36: if every agent call eventually returns, every strategy's execute
\* terminates, after a number of agent calls fixed by its parameters and the
\* agent set: 3 for Consensus, 3N+1 for Adversarial with N >= 1 rounds, 3 or 4
\* for Pipeline, W+1 for CognitiveMesh with W workers, P+2(G-1)+1 for
\* Evolutionary with population P and G >= 1 generations, and 2N+1 for
\* VerificationLoop with N >= 1 iterations.
C36_TerminatesAfterFixedCalls ==
    /\ <>Terminated
    /\ [](\A k \in DOMAIN Strategies :
            (Strategies[k].pc = "done" /\ LoopParameter(k) >= 1) =>
                Len(Strategies[k].calls) = ExpectedCalls(k))

\* A VerificationLoop run of two iterations returned after five calls.
C36_Witness ==
    /\ ver.pc = "done"
    /\ ver.iterations = 2
    /\ Len(ver.calls) = 5
    /\ eng.pc = "returned"

\* ---------------------------------------------------------------------
\* AdaptiveRouter.execute delegating to the strategy it selects
\* ---------------------------------------------------------------------

\* Entries the history of the router may hold before execute is called.
MaxRouteRecords == 1

\* The strategies registered with the router are Consensus() and
\* VerificationLoop(iterations=2), under their names.
RouteNames == {"consensus", "verification_loop"}
RouteIterations == 2

\* `context` as the caller passes it: None or a mapping.
RouteContexts == {"None", "context"}

\* The name attribute of each strategy class, in the order of Strategies.
NameOfStrategy ==
    <<"adversarial", "evolutionary", "verification_loop", "cognitive_mesh",
      "pipeline", "consensus">>

\* The components the router leaves alone.
routeRest ==
    <<adv, evo, ver, mesh, eng, conf, fit, rtr, pipe, cons, hist,
      conc, rank, att, ser, store, twice, cross, best, sync>>

\* The components neither the router nor the strategy it delegates to touches.
routeOthersRest ==
    <<eng, conf, fit, rtr, hist,
      conc, rank, att, ser, store, twice, cross, best, sync>>

\* AdaptiveRouter(): no strategy registered, the history file absent.
\* `selected` holds the latest select_strategy call and what it returned,
\* `args` the arguments of execute, `delegated` the arguments of
\* selected.execute, `result` the mapping execute returned.
RouteInit ==
    route = [pc |-> "idle", strategies |-> <<>>,
             history |-> Load(NoFile), file |-> NoFile,
             selected |-> <<>>, args |-> <<>>,
             delegated |-> <<>>, result |-> <<>>]

\* AdaptiveRouter.register_strategy
RouteRegister ==
    /\ UNCHANGED routeRest
    /\ route.pc = "idle"
    /\ Len(route.strategies) < MaxStrategies
    /\ \E name \in RouteNames :
        /\ name \notin Range(route.strategies)
        /\ route' = [route EXCEPT !.strategies = Append(@, name),
                                  !.selected = <<>>]

\* RoutingHistory.record on the history of the router.
RouteRecord ==
    /\ UNCHANGED routeRest
    /\ route.pc = "idle"
    /\ Len(route.history) < MaxRouteRecords
    /\ \E task \in RouterTasks, strategy \in RouteNames,
          score \in RecordedScores :
        LET history == Append(route.history, HistEntry(task, strategy, score))
        IN  route' = [route EXCEPT !.history = history,
                                   !.file = FileWith(Dumps(history)),
                                   !.selected = <<>>]

\* A select_strategy that notes its choice in the history.
RouteSelectRecording ==
    /\ UNCHANGED routeRest
    /\ route.pc = "idle"
    /\ Len(route.history) < MaxRouteRecords
    /\ \E task \in RouterTasks :
        LET result == SelectStrategy(route.strategies, route.history, task)
        IN  route' = [route EXCEPT
                        !.selected = <<[task |-> task, result |-> result]>>,
                        !.history = Append(@, HistEntry(task, result.strategy,
                                                        10))]

\* AdaptiveRouter.select_strategy(task), called by itself.
RouteSelect ==
    /\ UNCHANGED routeRest
    /\ route.pc = "idle"
    /\ \E task \in RouterTasks :
        route' = [route EXCEPT
                    !.selected = <<[task |-> task,
                                    result |-> SelectStrategy(route.strategies,
                                                              route.history,
                                                              task)]>>]

\* selected.execute(task, agents, context) is entered: the run of the
\* instance registered under `name`.
Delegate(name, agents) ==
    /\ ver' = IF name = "verification_loop"
              THEN VerEntered(RouteIterations, agents) ELSE ver
    /\ cons' = IF name = "consensus" THEN ConsEntered(agents) ELSE cons
    /\ UNCHANGED <<adv, evo, mesh, pipe>>

\* The arguments a router hands over with the agents of another caller.
DelegatedArgsOtherAgents(task, agents, context) ==
    [task |-> task,
     agents |-> CHOOSE other \in TwiceAgentDicts : other # agents,
     context |-> context]

\* `await selected.execute(task, agents, context)`: what execute passes on.
DelegatedArgs(task, agents, context) ==
    [task |-> task, agents |-> agents, context |-> context]

\* execute up to its await: selected = self.select_strategy(task), then
\* selected.execute(task, agents, context) is entered; an exception of
\* select_strategy leaves execute.
RouteExecute ==
    /\ UNCHANGED routeOthersRest
    /\ route.pc = "idle"
    /\ \E task \in RouterTasks, agents \in TwiceAgentDicts,
          context \in RouteContexts :
        LET selected == SelectStrategy(route.strategies, route.history, task)
            args == [task |-> task, agents |-> agents, context |-> context]
            passed == DelegatedArgs(task, agents, context)
            call == <<[task |-> task, result |-> selected]>>
        IN  IF selected.outcome = "raised"
            THEN /\ route' = [route EXCEPT !.pc = "raised", !.args = args,
                                           !.selected = call]
                 /\ UNCHANGED <<adv, evo, ver, mesh, pipe, cons>>
            ELSE /\ route' = [route EXCEPT !.pc = "await", !.args = args,
                                           !.selected = call,
                                           !.delegated = passed]
                 /\ Delegate(selected.strategy, passed.agents)

\* result[key] = value on a dict: a key already present keeps its place.
SetItem(result, key, value) ==
    IF HasKey(result, key)
    THEN [i \in DOMAIN result |->
            IF result[i][1] = key THEN <<key, value>> ELSE result[i]]
    ELSE Append(result, <<key, value>>)

\* The result handed back with 'routed_to' only.
RoutedKeepingStrategy(result, name) ==
    SetItem(result, <<"routed_to">>, Str(name))

\* result["routed_to"] = selected.name; result["strategy"] = self.name
Routed(result, name) ==
    SetItem(SetItem(result, <<"routed_to">>, Str(name)),
            <<"strategy">>, Str("adaptive_router"))

\* The delegated execute returned: the two keys are set and the mapping is
\* returned.
RouteReturn ==
    /\ UNCHANGED routeRest
    /\ route.pc = "await"
    /\ Running.pc = "done"
    /\ route' = [route EXCEPT
                   !.pc = "returned",
                   !.result = Routed(ExecuteResult,
                                    route.selected[1].result.strategy)]

\* The delegated execute raised: the exception leaves execute at the await.
RouteRaise ==
    /\ UNCHANGED routeRest
    /\ route.pc = "await"
    /\ Running.pc = "raised"
    /\ route' = [route EXCEPT !.pc = "raised"]

NextRoute ==
    \/ RouteRegister
    \/ RouteRecord
    \/ RouteSelect
    \/ RouteExecute
    \/ NextVer
    \/ NextCons
    \/ RouteReturn
    \/ RouteRaise

InitRoute ==
    /\ sync = Idle
    /\ RouteInit
    /\ adv = Off /\ evo = Off /\ ver = Off /\ mesh = Off /\ pipe = Off
    /\ cons = Off
    /\ eng = Idle /\ conf = Idle /\ fit = Idle /\ rtr = Idle /\ hist = Idle
    /\ conc = Idle /\ rank = Idle /\ att = Idle /\ ser = Idle
    /\ store = Idle /\ twice = Idle /\ cross = Idle /\ best = Idle

SpecRoute == InitRoute /\ [][NextRoute]_vars

\* What select_strategy answers for the task execute was called with.
ChosenByRouter ==
    SelectStrategy(route.strategies, route.history, route.args.task)

\* C37: AdaptiveRouter.execute invokes exactly the agent calls of the one
\* strategy chosen by select_strategy(task), passing it the same task, agents
\* and context, and returns that strategy's result mapping with 'routed_to'
\* set to the chosen strategy's name and 'strategy' set to 'adaptive_router';
\* every other key of the delegated result is unchanged.
C37_DelegatesAndTags ==
    /\ route.pc \in {"idle", "raised"} /\ route.delegated = <<>> =>
          \A k \in DOMAIN Strategies : Strategies[k] = Off
    /\ route.delegated # <<>> =>
          /\ ChosenByRouter.outcome = "returned"
          /\ \A k \in DOMAIN Strategies :
                IF NameOfStrategy[k] = ChosenByRouter.strategy
                THEN Strategies[k].pc # "off"
                ELSE Strategies[k] = Off
          /\ route.delegated = route.args
          /\ Running.agents = route.args.agents
    /\ route.pc = "returned" =>
          LET delegated == ExecuteResult
              result == route.result
          IN  /\ Get(delegated, <<"strategy">>) = Str(ChosenByRouter.strategy)
              /\ ~HasKey(delegated, <<"routed_to">>)
              /\ Get(result, <<"routed_to">>) = Str(ChosenByRouter.strategy)
              /\ Get(result, <<"strategy">>) = Str("adaptive_router")
              /\ Len(result) = Len(delegated) + 1
              /\ \A i \in DOMAIN delegated :
                    delegated[i][1] # <<"strategy">> => result[i] = delegated[i]

\* A router holding Consensus and VerificationLoop returned the result of the
\* VerificationLoop run it had learned for the task, after the five calls of
\* that run.
C37_Witness ==
    /\ route.pc = "returned"
    /\ route.strategies = <<"consensus", "verification_loop">>
    /\ route.args.task = <<"F", "i", "x", " ", "a", "u", "t", "h">>
    /\ Len(route.history) = 1
    /\ ChosenByRouter.strategy = "verification_loop"
    /\ Len(ver.calls) = 5
    /\ cons = Off
    /\ Get(route.result, <<"routed_to">>) = Str("verification_loop")

\* ---------------------------------------------------------------------
\* CloudRoutingSync.merge_remote
\* ---------------------------------------------------------------------

\* Entries one remote list may hold, and merge_remote calls of one run.
MaxRemote == 2
MaxMerges == 2

\* The components CloudRoutingSync leaves alone.
syncRest ==
    <<adv, evo, ver, mesh, eng, conf, fit, rtr, pipe, cons, hist,
      conc, rank, att, ser, store, twice, cross, best, route>>

\* RoutingEntry(task_hash, ..., strategy, ..., timestamp): the fields that
\* tell the remote entries apart.
RemoteEntry(task_hash, timestamp, strategy) ==
    [task_hash |-> task_hash, timestamp |-> timestamp, strategy |-> strategy]

\* The entries a remote may send: two that share task_hash and timestamp, one
\* with another timestamp, one with another task_hash.
RemoteEntries ==
    {RemoteEntry("r1", 100, "evolutionary"), RemoteEntry("r1", 100, "consensus"),
     RemoteEntry("r1", 200, "evolutionary"), RemoteEntry("r2", 100, "evolutionary")}

RemoteLists == UNION {[1..n -> RemoteEntries] : n \in 0..MaxRemote}

\* (e.task_hash, e.timestamp)
PairOf(e) == <<e.task_hash, e.timestamp>>

\* existing_hashes = {(e.task_hash, e.timestamp) for e in self._profile.entries}
ExistingHashes(entries) == {PairOf(entries[k]) : k \in DOMAIN entries}

\* for entry in remote_entries: append unless its pair is in existing_hashes,
\* the set computed before the loop.
RECURSIVE MergeLoop(_, _, _)
MergeLoop(entries, remote_entries, existing_hashes) ==
    IF remote_entries = <<>> THEN entries
    ELSE LET entry == Head(remote_entries)
         IN  MergeLoop(IF PairOf(entry) \notin existing_hashes
                       THEN Append(entries, entry) ELSE entries,
                       Tail(remote_entries), existing_hashes)

\* CloudRoutingSync(persist_path=p) on a missing file: an empty profile.
SyncInit ==
    sync = [entries |-> <<>>, file |-> <<>>, saved |-> FALSE, merges |-> <<>>]

\* CloudRoutingSync.merge_remote(remote_entries): `merges` logs the call, the
\* entries before and after it and the number it returned.
MergeRemote ==
    /\ UNCHANGED syncRest
    /\ Len(sync.merges) < MaxMerges
    /\ \E remote_entries \in RemoteLists :
        LET merged == MergeLoop(sync.entries, remote_entries,
                                ExistingHashes(sync.entries))
            added == Len(merged) - Len(sync.entries)
        IN  sync' = [sync EXCEPT
                       !.entries = merged,
                       !.file = IF added > 0 THEN merged ELSE @,
                       !.saved = IF added > 0 THEN TRUE ELSE @,
                       !.merges = Append(@, [remote_entries |-> remote_entries,
                                             before |-> sync.entries,
                                             returned |-> added])]

NextSync ==
    \/ MergeRemote

InitSync ==
    /\ SyncInit
    /\ adv = Idle /\ evo = Idle /\ ver = Idle /\ mesh = Idle
    /\ eng = Idle /\ conf = Idle /\ fit = Idle /\ rtr = Idle
    /\ pipe = Idle /\ cons = Idle /\ hist = Idle
    /\ conc = Idle /\ rank = Idle /\ att = Idle /\ ser = Idle
    /\ store = Idle /\ twice = Idle /\ cross = Idle /\ best = Idle
    /\ route = Idle

SpecSync == InitSync /\ [][NextSync]_vars

\* The entries stored after the merge `k`.
StoredAfter(k) ==
    IF k = Len(sync.merges) THEN sync.entries ELSE sync.merges[k + 1].before

\* C38: CloudRoutingSync.merge_remote adds a remote entry only if no stored
\* entry has the same (task_hash, timestamp) pair, returns the number of
\* entries it added, and merging the same entries a second time adds 0; after
\* any sequence of merge_remote calls on an initially empty store no two
\* stored entries share a (task_hash, timestamp) pair.
C38_MergeAddsOnlyNewPairs ==
    /\ \A k \in DOMAIN sync.merges :
          LET before == sync.merges[k].before
              after == StoredAfter(k)
          IN  /\ SubSeq(after, 1, Len(before)) = before
              /\ sync.merges[k].returned = Len(after) - Len(before)
              /\ \A j \in (Len(before) + 1)..Len(after) :
                    \A i \in 1..(j - 1) : PairOf(after[i]) # PairOf(after[j])
              /\ (k > 1 /\ sync.merges[k].remote_entries
                              = sync.merges[k - 1].remote_entries) =>
                    sync.merges[k].returned = 0
    /\ \A i, j \in DOMAIN sync.entries :
          i # j => PairOf(sync.entries[i]) # PairOf(sync.entries[j])

\* What merge_remote does keep: it returns the number it added, it adds no
\* entry whose pair was stored when it was called, and the same list merged
\* again adds nothing.
C38_MergeAgainstStored ==
    \A k \in DOMAIN sync.merges :
        LET before == sync.merges[k].before
            after == StoredAfter(k)
        IN  /\ SubSeq(after, 1, Len(before)) = before
            /\ sync.merges[k].returned = Len(after) - Len(before)
            /\ \A j \in (Len(before) + 1)..Len(after) :
                  PairOf(after[j]) \notin ExistingHashes(before)
            /\ (k > 1 /\ sync.merges[k].remote_entries
                            = sync.merges[k - 1].remote_entries) =>
                  sync.merges[k].returned = 0

\* One list that held the same pair twice was merged into the empty store:
\* both entries are stored and 2 was returned.
C38_DuplicatesStored ==
    /\ Len(sync.merges) = 1
    /\ sync.merges[1].returned = 2
    /\ Len(sync.entries) = 2
    /\ PairOf(sync.entries[1]) = PairOf(sync.entries[2])

\* ---------------------------------------------------------------------
\* The router and its history: who writes it
\* ---------------------------------------------------------------------

\* The step is a RoutingHistory.record: one entry appended to the history
\* and the whole history written to the file.
RecordStep ==
    /\ \E task \in RouterTasks, strategy \in RouteNames,
          score \in RecordedScores :
          route'.history = Append(route.history,
                                  HistEntry(task, strategy, score))
    /\ route'.file = FileWith(Dumps(route'.history))

\* The step changes what select_strategy answers for some task.
ChoiceChanges ==
    \E task \in RouterTasks :
        SelectStrategy(route'.strategies, route'.history, task)
            # SelectStrategy(route.strategies, route.history, task)

\* The steps of select_strategy and of execute, the delegated run included,
\* leave the history and its file as they are.
ReadOnlySteps ==
    (\/ RouteSelect
     \/ RouteExecute
     \/ NextVer
     \/ NextCons
     \/ RouteReturn
     \/ RouteRaise) =>
        /\ route'.history = route.history
        /\ route'.file = route.file

\* C39: AdaptiveRouter.select_strategy and AdaptiveRouter.execute only read
\* the RoutingHistory: neither changes the in-memory history nor the
\* persisted file, so the router's choice for a given task changes only after
\* some caller invokes RoutingHistory.record.
C39_ChoiceChangesOnlyOnRecord ==
    [][/\ ReadOnlySteps
       /\ (route'.history # route.history \/ route'.file # route.file)
             => RecordStep
       /\ ChoiceChanges => RecordStep]_vars

\* C39 with the other writer of the router's choice: the choice for a task
\* changes only with a record or with a register_strategy, which changes the
\* registered strategies and not the history.
C39_ChoiceChangesOnRecordOrRegister ==
    [][/\ ReadOnlySteps
       /\ (route'.history # route.history \/ route'.file # route.file)
             => RecordStep
       /\ ChoiceChanges =>
             \/ RecordStep
             \/ /\ route'.strategies # route.strategies
                /\ route'.history = route.history
                /\ route'.file = route.file]_vars

\* execute returned the result of the Consensus run it delegated to, with
\* the one recorded entry still in the history and in the file.
C39_Witness ==
    /\ route.pc = "returned"
    /\ cons.pc = "done"
    /\ route.history = <<HistEntry(<<"F", "i", "x", " ", "a", "u", "t", "h">>,
                                   "consensus", 5)>>
    /\ route.file = FileWith(Dumps(route.history))
    /\ route.selected[1].result = Selected("consensus")

\* ---------------------------------------------------------------------
\* The confidence score of a run of the engine
\* ---------------------------------------------------------------------

\* The value is a non-empty text.
NonEmpty(value) == IsStr(value) /\ value.v # ""

\* The result holds a non-empty claude_output and a non-empty codex_output
\* that differ.
VendorsDiffer(result) ==
    /\ NonEmpty(Get(result, Key("claude")))
    /\ NonEmpty(Get(result, Key("codex")))
    /\ Get(result, Key("claude")) # Get(result, Key("codex"))

\* C40: the confidence score of every PipelineResult produced by
\* DualEngine.run is one of 80, 85, 95 or 100: it is 85 plus 15 if an 'ollama'
\* agent is registered in the engine, minus 5 if the strategy output has
\* non-empty claude_output and codex_output that differ; it depends on no
\* other agent output and not on which agents the strategy actually invoked.
C40_ScoreOfRun ==
    \A k \in DOMAIN eng.runs :
        LET score == Score(eng.runs[k].out.confidence)
        IN  /\ score \in {80, 85, 95, 100}
            /\ score = 85
                       + (IF "ollama" \in Range(eng.agents) THEN 15 ELSE 0)
                       - (IF VendorsDiffer(eng.runs[k].result) THEN 5 ELSE 0)

\* A run on an engine with 'ollama' registered whose strategy returned two
\* different vendor outputs: the score is 95.
C40_Witness ==
    /\ eng.runs # <<>>
    /\ "ollama" \in Range(eng.agents)
    /\ VendorsDiffer(eng.runs[1].result)
    /\ Score(eng.runs[1].out.confidence) = 95

====
